---- MODULE Spec2Model ----
(***************************************************************************)
(* Model of the schedule builder, generate_schedule() of                   *)
(* src/schedule_generator.py, and of its nested helper                     *)
(* calculate_duration(); and of the material estimator,                    *)
(* estimate_materials() of src/AIConstructionPro/utils/                    *)
(* material_estimation.py, which reads the same two arguments.             *)
(*                                                                         *)
(* Representation.                                                         *)
(*  - Dates are day numbers (integers); timedelta(days=n) is +n.           *)
(*  - building_area_ratio is held in hundredths (RatioUnit), the           *)
(*    complexity factor in thousandths (CFUnit), the size factor in        *)
(*    tenths (SFUnit).  The products the code floors with int() are        *)
(*    computed exactly in these units and truncated by PyInt.  The input   *)
(*    sets below are values on which the code's double arithmetic and      *)
(*    this exact arithmetic give the same 25 durations.                    *)
(*  - A Python dict is a function; a key that is absent from a dict is     *)
(*    absent from the function's DOMAIN.                                   *)
(*  - A datetime is held as the day number of its date.  The builder adds  *)
(*    whole days only and compares the dates (lines 620-623), so the time  *)
(*    of day of a datetime takes part in no value held here.               *)
(*  - The value passed as project_info['start_date'] is a record of its    *)
(*    Python type (form) and its content (value): the day of a date or of  *)
(*    a datetime, the day a date string denotes, the number of an int;     *)
(*    None has value 0.                                                    *)
(*  - An exception that leaves generate_schedule is pc = "raised".         *)
(*  - The quantities and costs of estimate_materials are held in           *)
(*    hundredths, the building area in hundredths of a square foot.        *)
(*    round() is computed on the exact value, halves to the even           *)
(*    neighbour.  Where the exact value is a half the code's double        *)
(*    decides the direction; the inputs the estimator is run on below are  *)
(*    values on which both give the same list.                             *)
(*  - The dashboard (app.py) is a script that runs from its top on every   *)
(*    action of the user; what it keeps is st.session_state.  Its runs are *)
(*    modelled in the section on the schedule tab below.                   *)
(***************************************************************************)
EXTENDS Integers, Sequences, FiniteSets, TLC

VARIABLES
    pc,                 \* "idle", "tasks" (lines 91-603), "post" (606-639), "done",
                        \* "raised"
    project_info,       \* argument of generate_schedule
    analysis_result,    \* argument of generate_schedule
    clock,              \* the day datetime.now() reports
    start_date,         \* locals of generate_schedule, by their names
    area_sqft,
    building_area_ratio,
    num_rooms,
    num_windows_doors,
    complexity_factor,
    size_factor,
    calculation_cache,
    schedule,
    current_date,
    end_date,
    plumbing_end,
    electrical_end,
    hvac_end,
    electrical_fixture_end,
    idx,                \* position of the loop of lines 607-639 in schedule
    call,               \* <<>> or <<the last call of calculate_duration: args, ret>>
    materials,          \* Unset or the list estimate_materials returned for
                        \*   the arguments
    previous,           \* <<>> or <<the arguments and the results of the first
                        \*   round of calls that returned>>
    session_state,      \* st.session_state of app.py: the keys it holds for the
                        \*   schedule tab, each with its value
    at,                 \* where the run of the script app.py is: "wait" (the
                        \*   run is over, the page waits for the user), "tab1",
                        \*   "tab3", "charts"
    event,              \* the user's action that started the run
    shown               \* <<>> or <<what the charts of the last run computed>>

inputs == <<project_info, analysis_result>>
factors == <<start_date, area_sqft, building_area_ratio, num_rooms,
             num_windows_doors, complexity_factor, size_factor>>
branch_ends == <<plumbing_end, electrical_end, hvac_end, electrical_fixture_end>>
caller == <<materials, previous>>
dashboard == <<session_state, at, event, shown>>
vars == <<pc, inputs, clock, factors, calculation_cache, schedule, current_date,
          end_date, branch_ends, idx, call, caller, dashboard>>

----------------------------------------------------------------------------
(* Units of the fixed-point representation. *)
RatioUnit == 100
CFUnit == 1000
SFUnit == 10

(* Program constants. *)
MAX_REASONABLE_SQFT == 10000
MAX_ROOMS == 50
MAX_WINDOWS_DOORS == 100
MAX_COMPLEXITY == 3000
MAX_SIZE_FACTOR == 15
DefaultMaximumDays == 30
curing_days == 7
appliance_days == 1
inspection_days == 1
DefaultAreaSqft == 1000
DefaultBuildingAreaRatio == 50
DefaultNumRooms == 1
DefaultNumWindowsDoors == 2
MAX_REASONABLE_ROOMS == 30
MAX_REASONABLE_WINDOWS_DOORS == 60
MAX_REASONABLE_AREA == 10000

(* A local that has not been assigned yet. *)
Unset == "unset"

(* The values of project_info['start_date'], by Python type. *)
DateValue(day) == [form |-> "date", value |-> day]
DatetimeValue(day) == [form |-> "datetime", value |-> day]
StrValue(day) == [form |-> "str", value |-> day]
IntValue(n) == [form |-> "int", value |-> n]
NoneValue == [form |-> "None", value |-> 0]

(* The value of a str that denotes no day. *)
NoDay == -1

(* Inputs of the model. *)
AreaValues == {0, 999, 1000, 3001, 10000, 12000}
RatioValues == {0, 50, 100}
RoomValues == {0, 1, 7, 60}
WindowDoorValues == {2, 10, 120}
StartValues == {DateValue(0), DateValue(5)}
ClockValues == {0, 22, 40}

Max(a, b) == IF a >= b THEN a ELSE b
Min(a, b) == IF a <= b THEN a ELSE b

(* Python's int(n / d) for d > 0: the quotient truncated toward zero. *)
PyInt(n, d) == IF n >= 0 THEN n \div d ELSE -((-n) \div d)

(* int(np.sqrt(a) / d) for an integer a >= 0 and d > 0: the largest b with *)
(* b*d <= sqrt(a).                                                         *)
SqrtDiv(a, d) ==
    CHOOSE b \in 0..a : (b * d) * (b * d) <= a /\ ((b + 1) * d) * ((b + 1) * d) > a

----------------------------------------------------------------------------
(* Lines 50-54: the complexity factor, in thousandths, of the ratio (in     *)
(* hundredths) and the clamped counts.  0.5 is 5 thousandths per           *)
(* hundredth, 0.1 is 100 thousandths, 0.05 is 50 thousandths.              *)
ComplexityFactor_Uncapped(ratio, rooms, windows_doors) ==
    CFUnit + ratio * 5 + rooms * 100 + windows_doors * 50

ComplexityFactor(ratio, rooms, windows_doors) ==
    LET raw == CFUnit + ratio * 5 + rooms * 100 + windows_doors * 50
    IN  Min(raw, MAX_COMPLEXITY)

(* Lines 46-47: the clamps of the two counts. *)
ClampRooms(rooms) == Min(rooms, MAX_ROOMS)
ClampWindowsDoors(windows_doors) == Min(windows_doors, MAX_WINDOWS_DOORS)

(* Lines 56-65: the size factor, in tenths, of the clamped area. *)
SizeFactor(area) ==
    LET sf == IF area < 1000 THEN 8 ELSE IF area > 3000 THEN 12 ELSE SFUnit
    IN  Min(sf, MAX_SIZE_FACTOR)

(* Lines 22-27: the area the run works with. *)
ClampArea_Unclamped(area) == area

ClampArea(area) == IF area > MAX_REASONABLE_SQFT THEN MAX_REASONABLE_SQFT ELSE area

(* dict.get(key, default). *)
Get_WithoutDefault(d, key, default) == IF key \in DOMAIN d THEN d[key] ELSE 0

Get(d, key, default) == IF key \in DOMAIN d THEN d[key] ELSE default

(* Lines 21 and 30-36: the datetime the run starts from, with now the      *)
(* value of datetime.now().  A datetime is kept (line 30), a date is       *)
(* combined with midnight (line 33); datetime.combine raises TypeError on  *)
(* anything else, a str as well as None or a number, and the handler of    *)
(* lines 34-36 takes datetime.now().                                       *)
StartDatetime_OfAnyValue(info, now) ==
    Get(info, "start_date", DateValue(now)).value

StartDatetime(info, now) ==
    LET given == Get(info, "start_date", DateValue(now))
    IN  IF given.form = "datetime" THEN given.value
        ELSE IF given.form = "date" THEN given.value
        ELSE now

(* Lines 75-76: np.sqrt of a negative number is nan, and int(nan) raises   *)
(* ValueError.                                                             *)
Raises(base_factor) == base_factor = "sqrt" /\ area_sqft < 0

(* Line 70: the cache key.  The f-string joins the four values with "_";   *)
(* on mode names without "_", integers and booleans that is one-to-one, so *)
(* the key is the tuple.  maximum_days is not part of it.                  *)
CacheKey_WithoutMinimumDays(base_factor, divisor, use_complexity, minimum_days) ==
    <<base_factor, divisor, use_complexity>>

CacheKey(base_factor, divisor, use_complexity, minimum_days) ==
    <<base_factor, divisor, use_complexity, minimum_days>>

(* Lines 74-82: result before the cap, on a cache miss. *)
ScaledDuration(base_factor, divisor, use_complexity, minimum_days) ==
    LET base == IF base_factor = "sqrt"
                THEN SqrtDiv(area_sqft, divisor)
                ELSE PyInt(area_sqft, divisor)
        r0 == Max(minimum_days, base)
        r1 == IF use_complexity THEN PyInt(r0 * complexity_factor, CFUnit) ELSE r0
    IN  PyInt(r1 * size_factor, SFUnit)

(* Lines 74-85: the computation of calculate_duration on a cache miss. *)
ComputeDuration(base_factor, divisor, use_complexity, minimum_days, maximum_days) ==
    Min(ScaledDuration(base_factor, divisor, use_complexity, minimum_days),
        maximum_days)

(* Lines 68-89: the value calculate_duration returns with the cache as it is. *)
calculate_duration(base_factor, divisor, use_complexity, minimum_days, maximum_days) ==
    LET cache_key == CacheKey(base_factor, divisor, use_complexity, minimum_days)
    IN  IF cache_key \in DOMAIN calculation_cache
        THEN calculation_cache[cache_key]
        ELSE ComputeDuration(base_factor, divisor, use_complexity, minimum_days,
                             maximum_days)

(* Lines 71-72, 88: the cache after that call. *)
CacheAfter(base_factor, divisor, use_complexity, minimum_days, maximum_days) ==
    LET cache_key == CacheKey(base_factor, divisor, use_complexity, minimum_days)
    IN  IF cache_key \in DOMAIN calculation_cache
        THEN calculation_cache
        ELSE (cache_key :> ComputeDuration(base_factor, divisor, use_complexity,
                                           minimum_days, maximum_days))
             @@ calculation_cache

(* One call of calculate_duration as a step: the cache is updated and the  *)
(* call is recorded with the value it returns.                             *)
Calls(base_factor, divisor, use_complexity, minimum_days, maximum_days) ==
    /\ calculation_cache' = CacheAfter(base_factor, divisor, use_complexity,
                                       minimum_days, maximum_days)
    /\ call' = << [base_factor |-> base_factor, divisor |-> divisor,
                   use_complexity |-> use_complexity, minimum_days |-> minimum_days,
                   maximum_days |-> maximum_days,
                   ret |-> calculate_duration(base_factor, divisor, use_complexity,
                                              minimum_days, maximum_days)] >>

(* Line 375: the cursor after the rough-in branches and the windows. *)
RoughInJoin_WithoutWindows(plumbing, electrical, hvac, windows) ==
    Max(Max(plumbing, electrical), hvac) + 1

RoughInJoin(plumbing, electrical, hvac, windows) ==
    Max(Max(plumbing, electrical), Max(hvac, windows)) + 1

(* Line 546: the cursor after the two fixture branches. *)
FixtureJoin(plumbing_fixtures, electrical_fixtures) ==
    Max(plumbing_fixtures, electrical_fixtures) + 1

(* A dict appended to schedule (the descriptive strings responsible_party, *)
(* description and resources_needed are left out).                        *)
Task_ZeroBased(id, name, phase, start, end, duration, critical, predecessors) ==
    [task_id |-> id - 1, task_name |-> name, phase |-> phase, start_date |-> start,
     end_date |-> end, duration |-> duration, critical_path |-> critical,
     predecessor_tasks |-> predecessors, manual_completion_pct |-> "None"]

Task_SwappedDates(id, name, phase, start, end, duration, critical, predecessors) ==
    [task_id |-> id, task_name |-> name, phase |-> phase, start_date |-> end,
     end_date |-> start, duration |-> duration, critical_path |-> critical,
     predecessor_tasks |-> predecessors, manual_completion_pct |-> "None"]

Task(id, name, phase, start, end, duration, critical, predecessors) ==
    [task_id |-> id, task_name |-> name, phase |-> phase, start_date |-> start,
     end_date |-> end, duration |-> duration, critical_path |-> critical,
     predecessor_tasks |-> predecessors, manual_completion_pct |-> "None"]

----------------------------------------------------------------------------
(* estimate_materials (material_estimation.py). *)

(* round(n / d) for n >= 0 and d > 0. *)
RoundHalfEven(n, d) ==
    LET q == n \div d
        r == n % d
    IN  IF 2 * r < d THEN q
        ELSE IF 2 * r > d THEN q + 1
        ELSE IF q % 2 = 0 THEN q ELSE q + 1

(* The integer part of the square root of n >= 0: twice that of n \div 4, *)
(* or one more.                                                            *)
RECURSIVE Isqrt(_)
Isqrt(n) ==
    IF n < 2 THEN n
    ELSE LET s == 2 * Isqrt(n \div 4)
         IN  IF (s + 1) * (s + 1) <= n THEN s + 1 ELSE s

(* The sign (-1, 0, 1) of L - C * sqrt(N), for C > 0 and N >= 0, in        *)
(* integers: with q the integer part of sqrt(N) and r = L - C*q, the       *)
(* squares of L and C*sqrt(N) differ by 2*C*q*r + r*r - C*C*(N - q*q).     *)
CompareToSqrt(L, C, N) ==
    LET q == Isqrt(N)
        r == L - C * q
    IN  IF r < 0 THEN -1
        ELSE IF r = 0 THEN (IF q * q = N THEN 0 ELSE -1)
        ELSE IF r >= C THEN 1
        ELSE LET lhs == 2 * C * q * r + r * r
                 rhs == C * C * (N - q * q)
             IN  IF lhs < rhs THEN -1 ELSE IF lhs = rhs THEN 0 ELSE 1

(* round(x) for the x >= 0 with  n - 1/2 <= x  <=>  k*n - c0 <= C*sqrt(N). *)
RoundSqrt(k, c0, C, N) ==
    LET guess == (C * Isqrt(N) + c0) \div k
        n == CHOOSE m \in Max(0, guess - 1)..(guess + (C \div k) + 2) :
                 /\ CompareToSqrt(k * m - c0, C, N) <= 0
                 /\ CompareToSqrt(k * (m + 1) - c0, C, N) > 0
    IN  IF CompareToSqrt(k * n - c0, C, N) = 0 /\ n % 2 = 1 THEN n - 1 ELSE n

(* A dict appended to materials; quantity and cost in hundredths. *)
Material(name, quantity, unit, cost, category) ==
    [name |-> name, quantity |-> quantity, unit |-> unit, cost |-> cost,
     category |-> category]

(* Lines 30-32: the area the estimate works with. *)
MaterialArea_Unclamped(info) == Get(info, "area_sqft", DefaultAreaSqft)

MaterialArea(info) == Min(Get(info, "area_sqft", DefaultAreaSqft), MAX_REASONABLE_AREA)

(* Line 35: building_area, in hundredths of a square foot, of the area and *)
(* the ratio in hundredths.                                                *)
BuildingArea(area, ratio) == area * ratio

(* Lines 160-168: window_count.  (base_window_count + room_windows) / 2 is *)
(* (B/15000 + 1.5*rooms) / 2 = (B + 22500*rooms) / 30000.                  *)
window_count(B, rooms) ==
    LET count == Min(Max((B + 22500 * rooms) \div 30000, 2), 50)
    IN  IF B > 300000 THEN Min(count, B \div 20000) ELSE count

(* Lines 180-184: door_count; int(sqrt(building_area) / 15) is the largest *)
(* e with 150*e <= sqrt(B), the integer part of sqrt(B) / 150.             *)
exterior_doors(B) == Min(Max(Isqrt(B) \div 150, 1), 4)

door_count(B, rooms) == Min(rooms + exterior_doors(B), 30)

(* Lines 216-217. *)
plumbing_feet(rooms) == Max(1, rooms \div 2) * 100 + 50

(* Lines 38-237: the list for the building area B (in hundredths) and the  *)
(* clamped room count.  With b = B/100 the building area:                  *)
(*   foundation_concrete = b/100 * 0.5,  slab_concrete = b/100 * 1.23,     *)
(*   cement_bags = 0.1038 * b,  rebar_weight = 1.73 * b,                   *)
(*   blocks_needed = 30 * sqrt(b) = 3 * sqrt(B),  mortar_bags = that / 32, *)
(*   lumber_board_feet = 2 * b,  roof_trusses = sqrt(b) / 2,               *)
(*   roof_squares = 0.0115 * b,  drywall_sheets = sqrt(b) + b/32,          *)
(*   flooring_area = 1.15 * b,  paint_gallons = (32*sqrt(b) + b) / 200,    *)
(*   wiring_feet = 0.2 * b,  hvac_cost = 7 * b.                            *)
MaterialList(B, rooms) ==
    << Material("Concrete (Foundation)", RoundHalfEven(B, 200), "cubic yards",
                RoundHalfEven(5 * B, 8), "Concrete"),
       Material("Concrete (Slab)", RoundHalfEven(123 * B, 10000), "cubic yards",
                RoundHalfEven(1353 * B, 1000), "Concrete"),
       Material("Cement Bags", 100 * RoundHalfEven(1038 * B, 1000000), "bags",
                RoundHalfEven(1557 * B, 1250), "Concrete"),
       Material("Steel Reinforcement", RoundHalfEven(173 * B, 100), "lbs",
                RoundHalfEven(519 * B, 400), "Steel"),
       Material("Concrete Blocks (8-inch)", 100 * RoundSqrt(2, 1, 6, B), "blocks",
                RoundSqrt(2, 1, 210, 25 * B), "Masonry"),
       Material("Mortar Mix", 100 * RoundSqrt(32, 16, 3, B), "bags",
                RoundSqrt(8, 4, 135, 25 * B), "Masonry"),
       Material("Framing Lumber", 100 * RoundHalfEven(B, 50), "board feet",
                RoundHalfEven(17 * B, 10), "Other"),
       Material("Roof Trusses", 100 * RoundSqrt(20, 10, 1, B), "pieces",
                RoundSqrt(2, 1, 170, 25 * B), "Other"),
       Material("Asphalt Shingles", RoundHalfEven(23 * B, 2000), "squares",
                RoundHalfEven(207 * B, 200), "Finishing"),
       Material("Drywall Sheets", 100 * RoundSqrt(3200, 1600 + B, 320, B), "sheets",
                RoundSqrt(8, 4 + 3 * B, 96, 100 * B), "Finishing"),
       Material("Flooring", RoundHalfEven(23 * B, 20), "sq ft",
                RoundHalfEven(161 * B, 40), "Finishing"),
       Material("Windows", 100 * window_count(B, rooms), "pieces",
                100 * 250 * window_count(B, rooms), "Finishing"),
       Material("Doors", 100 * door_count(B, rooms), "pieces",
                100 * 150 * door_count(B, rooms), "Finishing"),
       Material("Paint", RoundSqrt(200, 100 + B, 320, B), "gallons",
                RoundSqrt(40, 20 + 7 * B, 224, 100 * B), "Finishing"),
       Material("Electrical Wiring", 100 * RoundHalfEven(B, 500), "feet",
                RoundHalfEven(B, 10), "Other"),
       Material("Plumbing Pipes", 100 * plumbing_feet(rooms), "feet",
                100 * 2 * plumbing_feet(rooms), "Other"),
       Material("HVAC System", 100, "system", 7 * B, "Other") >>

(* Lines 16-35: the building area and the room count of the arguments.     *)
(* (num_windows_doors is read and clamped, lines 19 and 28, and not used.) *)
MaterialBuildingArea(result, info) ==
    BuildingArea(MaterialArea(info),
                 Get(result, "building_area_ratio", DefaultBuildingAreaRatio))

MaterialRooms(result) ==
    Min(Get(result, "num_rooms", DefaultNumRooms), MAX_REASONABLE_ROOMS)

(* Lines 5-237: the list estimate_materials returns. *)
estimate_materials(result, info) ==
    MaterialList(MaterialBuildingArea(result, info), MaterialRooms(result))

----------------------------------------------------------------------------
(* Before generate_schedule is called: the arguments are any of the given  *)
(* values, no local is assigned.                                           *)
(* Lines 55-56 of app.py: what the first run of the script leaves in       *)
(* st.session_state for the schedule tab.  None is the empty sequence (the *)
(* builder never returns an empty list).                                   *)
FirstRun == [schedule |-> <<>>]

(* The actions of the user that start a run of the script: the Process     *)
(* Blueprint button (line 129), the completion mode radio (line 520), a    *)
(* completion slider (line 593), the Apply Completion Percentages button   *)
(* (line 700), or any other widget.                                        *)
UserEvent(kind, mode, task, value) ==
    [kind |-> kind, mode |-> mode, task |-> task, value |-> value]

NoEvent == UserEvent("none", "", 0, 0)

InitArgs(project_infos, analysis_results, clocks) ==
    /\ pc = "idle"
    /\ project_info \in project_infos
    /\ analysis_result \in analysis_results
    /\ clock \in clocks
    /\ start_date = Unset
    /\ area_sqft = Unset
    /\ building_area_ratio = Unset
    /\ num_rooms = Unset
    /\ num_windows_doors = Unset
    /\ complexity_factor = Unset
    /\ size_factor = Unset
    /\ calculation_cache = <<>>
    /\ schedule = <<>>
    /\ current_date = Unset
    /\ end_date = Unset
    /\ plumbing_end = Unset
    /\ electrical_end = Unset
    /\ hvac_end = Unset
    /\ electrical_fixture_end = Unset
    /\ idx = 0
    /\ call = <<>>
    /\ materials = Unset
    /\ previous = <<>>
    /\ session_state = FirstRun
    /\ at = "wait"
    /\ event = NoEvent
    /\ shown = <<>>

InitWith(areas, ratios, rooms, windows_doors, starts, clocks) ==
    InitArgs([start_date : starts, area_sqft : areas],
             [building_area_ratio : ratios, num_rooms : rooms,
              num_windows_doors : windows_doors],
             clocks)

Init ==
    InitWith(AreaValues, RatioValues, RoomValues, WindowDoorValues, StartValues,
             ClockValues)

(* Lines 17-65 and 91-93: generate_schedule is entered with the arguments  *)
(* held in project_info and analysis_result.                               *)
Begin_ResumingAfterPrevious ==
    /\ pc = "idle"
    /\ pc' = "tasks"
    /\ calculation_cache' = <<>>
    /\ start_date' = StartDatetime(project_info, clock)
    /\ area_sqft' = ClampArea(Get(project_info, "area_sqft", DefaultAreaSqft))
    /\ building_area_ratio' =
           Get(analysis_result, "building_area_ratio", DefaultBuildingAreaRatio)
    /\ num_rooms' = ClampRooms(Get(analysis_result, "num_rooms", DefaultNumRooms))
    /\ num_windows_doors' =
           ClampWindowsDoors(Get(analysis_result, "num_windows_doors",
                                 DefaultNumWindowsDoors))
    /\ complexity_factor' = ComplexityFactor(building_area_ratio', num_rooms',
                                             num_windows_doors')
    /\ size_factor' = SizeFactor(area_sqft')
    /\ schedule' = <<>>
    /\ current_date' = IF previous = <<>>
                       THEN start_date'
                       ELSE previous[1].schedule[25].end_date + 1
    /\ UNCHANGED <<inputs, caller, dashboard, clock, end_date, branch_ends, idx, call>>

Begin_WithProcessCache ==
    /\ pc = "idle"
    /\ pc' = "tasks"
    /\ calculation_cache' = calculation_cache
    /\ start_date' = StartDatetime(project_info, clock)
    /\ area_sqft' = ClampArea(Get(project_info, "area_sqft", DefaultAreaSqft))
    /\ building_area_ratio' =
           Get(analysis_result, "building_area_ratio", DefaultBuildingAreaRatio)
    /\ num_rooms' = ClampRooms(Get(analysis_result, "num_rooms", DefaultNumRooms))
    /\ num_windows_doors' =
           ClampWindowsDoors(Get(analysis_result, "num_windows_doors",
                                 DefaultNumWindowsDoors))
    /\ complexity_factor' = ComplexityFactor(building_area_ratio', num_rooms',
                                             num_windows_doors')
    /\ size_factor' = SizeFactor(area_sqft')
    /\ schedule' = <<>>
    /\ current_date' = start_date'
    /\ UNCHANGED <<inputs, caller, dashboard, clock, end_date, branch_ends, idx, call>>

Begin ==
    /\ pc = "idle"
    /\ pc' = "tasks"
    /\ calculation_cache' = <<>>
    /\ start_date' = StartDatetime(project_info, clock)
    /\ area_sqft' = ClampArea(Get(project_info, "area_sqft", DefaultAreaSqft))
    /\ building_area_ratio' =
           Get(analysis_result, "building_area_ratio", DefaultBuildingAreaRatio)
    /\ num_rooms' = ClampRooms(Get(analysis_result, "num_rooms", DefaultNumRooms))
    /\ num_windows_doors' =
           ClampWindowsDoors(Get(analysis_result, "num_windows_doors",
                                 DefaultNumWindowsDoors))
    /\ complexity_factor' = ComplexityFactor(building_area_ratio', num_rooms',
                                             num_windows_doors')
    /\ size_factor' = SizeFactor(area_sqft')
    /\ schedule' = <<>>
    /\ current_date' = start_date'
    /\ UNCHANGED <<inputs, caller, dashboard, clock, end_date, branch_ends, idx, call>>

----------------------------------------------------------------------------
(* The day counts of the tasks, by the names of the locals that hold them.  *)
(* Those computed by calculate_duration read the cache as it is at the call. *)
site_prep_days ==
    calculate_duration("sqrt", 50, FALSE, 1, DefaultMaximumDays)

excavation_days ==
    calculate_duration("sqrt", 50, TRUE, 1, DefaultMaximumDays)

formwork_days ==
    calculate_duration("sqrt", 30, TRUE, 2, DefaultMaximumDays)

rebar_days ==
    calculate_duration("sqrt", 70, TRUE, 1, DefaultMaximumDays)

concrete_days ==
    calculate_duration("sqrt", 100, TRUE, 1, DefaultMaximumDays)

floor_days ==
    calculate_duration("normal", 500, TRUE, 2, DefaultMaximumDays)

wall_days ==
    calculate_duration("normal", 400, TRUE, 3, DefaultMaximumDays)

roof_days ==
    calculate_duration("normal", 500, TRUE, 2, DefaultMaximumDays)

roofing_days ==
    calculate_duration("normal", 600, TRUE, 2, DefaultMaximumDays)

electrical_days ==
    calculate_duration("normal", 500, TRUE, 3, DefaultMaximumDays)

hvac_days ==
    calculate_duration("normal", 700, TRUE, 2, DefaultMaximumDays)

insulation_days ==
    calculate_duration("normal", 1000, TRUE, 1, DefaultMaximumDays)

drywall_days ==
    calculate_duration("normal", 400, TRUE, 3, DefaultMaximumDays)

painting_days ==
    calculate_duration("normal", 500, TRUE, 3, DefaultMaximumDays)

flooring_days ==
    calculate_duration("normal", 500, TRUE, 2, DefaultMaximumDays)

electrical_fixture_days ==
    calculate_duration("normal", 1000, FALSE, 1, DefaultMaximumDays)

cleaning_days ==
    calculate_duration("normal", 2000, FALSE, 1, DefaultMaximumDays)

(* Lines 293-294 and 296: the windows' days before and after their cap. *)
window_days_scaled ==
    PyInt(Max(1, PyInt(num_windows_doors, 4)) * complexity_factor * size_factor,
          CFUnit * SFUnit)

window_days == Min(window_days_scaled, 30)

(* Lines 315-316 and 318. *)
plumbing_days_scaled ==
    PyInt(Max(3, num_rooms \div 2) * complexity_factor * size_factor,
          CFUnit * SFUnit)

plumbing_days == Min(plumbing_days_scaled, 30)

(* Lines 419-420 and 422. *)
door_days_scaled ==
    PyInt(Max(1, num_rooms \div 2) * complexity_factor * size_factor,
          CFUnit * SFUnit)

door_days == Min(door_days_scaled, 20)

(* Lines 480-481 and 483. *)
cabinet_days_scaled ==
    PyInt(Max(2, num_rooms \div 3) * complexity_factor * size_factor,
          CFUnit * SFUnit)

cabinet_days == Min(cabinet_days_scaled, 15)

(* Lines 505-506 and 508. *)
plumbing_fixture_days_scaled ==
    PyInt(Max(1, num_rooms \div 3) * size_factor, SFUnit)

plumbing_fixture_days == Min(plumbing_fixture_days_scaled, 10)

(* The start dates the code holds in locals of their own. *)
curing_start == current_date                \* line 193
plumbing_start_AfterWindows == end_date + 1
plumbing_start == current_date              \* line 319
electrical_start == current_date            \* line 338
hvac_start == current_date                  \* line 357
painting_start_AtCursor == current_date
painting_start == end_date + 1              \* line 441
electrical_fixture_start == current_date    \* line 528

(* Lines 97-114: task 1, Site Clearing and Preparation. *)
Task1 ==
    /\ pc = "tasks"
    /\ Len(schedule) = 0
    /\ IF Raises("sqrt")
       THEN /\ pc' = "raised"
            /\ UNCHANGED <<calculation_cache, call, schedule, end_date,
                           current_date>>
       ELSE /\ Calls("sqrt", 50, FALSE, 1, DefaultMaximumDays)
            /\ schedule' = Append(schedule, Task(1, "Site Clearing and Preparation",
                                             "Site Preparation",
                                             current_date,
                                             current_date + site_prep_days,
                                             site_prep_days,
                                             TRUE, <<>>))
            /\ end_date' = current_date + site_prep_days
            /\ current_date' = end_date' + 1
            /\ pc' = pc
    /\ UNCHANGED <<inputs, caller, dashboard, clock, factors, idx, electrical_end,
                   electrical_fixture_end, hvac_end, plumbing_end>>

(* Lines 116-133: task 2, Excavation. *)
Task2 ==
    /\ pc = "tasks"
    /\ Len(schedule) = 1
    /\ Calls("sqrt", 50, TRUE, 1, DefaultMaximumDays)
    /\ schedule' = Append(schedule, Task(2, "Excavation", "Foundation",
                                     current_date, current_date + excavation_days,
                                     excavation_days,
                                     TRUE, <<1>>))
    /\ end_date' = current_date + excavation_days
    /\ current_date' = end_date' + 1
    /\ UNCHANGED <<pc, inputs, caller, dashboard, clock, factors, idx, electrical_end,
                   electrical_fixture_end, hvac_end, plumbing_end>>

(* Lines 135-152: task 3, Foundation Formwork. *)
Task3 ==
    /\ pc = "tasks"
    /\ Len(schedule) = 2
    /\ Calls("sqrt", 30, TRUE, 2, DefaultMaximumDays)
    /\ schedule' = Append(schedule, Task(3, "Foundation Formwork", "Foundation",
                                     current_date, current_date + formwork_days,
                                     formwork_days,
                                     TRUE, <<2>>))
    /\ end_date' = current_date + formwork_days
    /\ current_date' = end_date' + 1
    /\ UNCHANGED <<pc, inputs, caller, dashboard, clock, factors, idx, electrical_end,
                   electrical_fixture_end, hvac_end, plumbing_end>>

(* Lines 154-171: task 4, Steel Reinforcement Installation. *)
Task4 ==
    /\ pc = "tasks"
    /\ Len(schedule) = 3
    /\ Calls("sqrt", 70, TRUE, 1, DefaultMaximumDays)
    /\ schedule' = Append(schedule, Task(4, "Steel Reinforcement Installation",
                                     "Foundation",
                                     current_date, current_date + rebar_days,
                                     rebar_days,
                                     TRUE, <<3>>))
    /\ end_date' = current_date + rebar_days
    /\ current_date' = end_date' + 1
    /\ UNCHANGED <<pc, inputs, caller, dashboard, clock, factors, idx, electrical_end,
                   electrical_fixture_end, hvac_end, plumbing_end>>

(* Lines 173-189: task 5, Foundation Concrete Pour. *)
Task5 ==
    /\ pc = "tasks"
    /\ Len(schedule) = 4
    /\ Calls("sqrt", 100, TRUE, 1, DefaultMaximumDays)
    /\ schedule' = Append(schedule, Task(5, "Foundation Concrete Pour",
                                     "Foundation",
                                     current_date, current_date + concrete_days,
                                     concrete_days,
                                     TRUE, <<4>>))
    /\ end_date' = current_date + concrete_days
    /\ UNCHANGED <<pc, inputs, caller, dashboard, clock, factors, idx, current_date, electrical_end,
                   electrical_fixture_end, hvac_end, plumbing_end>>

(* Lines 191-209: task 6, Foundation Curing. *)
Task6 ==
    /\ pc = "tasks"
    /\ Len(schedule) = 5
    /\ UNCHANGED <<calculation_cache, call>>
    /\ schedule' = Append(schedule, Task(6, "Foundation Curing", "Foundation",
                                     curing_start, curing_start + curing_days,
                                     curing_days,
                                     TRUE, <<5>>))
    /\ current_date' = (curing_start + curing_days) + 1
    /\ UNCHANGED <<pc, inputs, caller, dashboard, clock, factors, idx, electrical_end,
                   electrical_fixture_end, end_date, hvac_end, plumbing_end>>

(* Lines 213-230: task 7, Floor Framing. *)
Task7 ==
    /\ pc = "tasks"
    /\ Len(schedule) = 6
    /\ Calls("normal", 500, TRUE, 2, DefaultMaximumDays)
    /\ schedule' = Append(schedule, Task(7, "Floor Framing", "Framing",
                                     current_date, current_date + floor_days,
                                     floor_days,
                                     TRUE, <<6>>))
    /\ end_date' = current_date + floor_days
    /\ current_date' = end_date' + 1
    /\ UNCHANGED <<pc, inputs, caller, dashboard, clock, factors, idx, electrical_end,
                   electrical_fixture_end, hvac_end, plumbing_end>>

(* Lines 232-249: task 8, Wall Framing. *)
Task8 ==
    /\ pc = "tasks"
    /\ Len(schedule) = 7
    /\ Calls("normal", 400, TRUE, 3, DefaultMaximumDays)
    /\ schedule' = Append(schedule, Task(8, "Wall Framing", "Framing",
                                     current_date, current_date + wall_days, wall_days,
                                     TRUE, <<7>>))
    /\ end_date' = current_date + wall_days
    /\ current_date' = end_date' + 1
    /\ UNCHANGED <<pc, inputs, caller, dashboard, clock, factors, idx, electrical_end,
                   electrical_fixture_end, hvac_end, plumbing_end>>

(* Lines 251-268: task 9, Roof Framing. *)
Task9 ==
    /\ pc = "tasks"
    /\ Len(schedule) = 8
    /\ Calls("normal", 500, TRUE, 2, DefaultMaximumDays)
    /\ schedule' = Append(schedule, Task(9, "Roof Framing", "Framing",
                                     current_date, current_date + roof_days, roof_days,
                                     TRUE, <<8>>))
    /\ end_date' = current_date + roof_days
    /\ current_date' = end_date' + 1
    /\ UNCHANGED <<pc, inputs, caller, dashboard, clock, factors, idx, electrical_end,
                   electrical_fixture_end, hvac_end, plumbing_end>>

(* Lines 270-287: task 10, Roofing Installation. *)
Task10 ==
    /\ pc = "tasks"
    /\ Len(schedule) = 9
    /\ Calls("normal", 600, TRUE, 2, DefaultMaximumDays)
    /\ schedule' = Append(schedule, Task(10, "Roofing Installation", "Exterior",
                                     current_date, current_date + roofing_days,
                                     roofing_days,
                                     TRUE, <<9>>))
    /\ end_date' = current_date + roofing_days
    /\ current_date' = end_date' + 1
    /\ UNCHANGED <<pc, inputs, caller, dashboard, clock, factors, idx, electrical_end,
                   electrical_fixture_end, hvac_end, plumbing_end>>

(* Lines 291-311: task 11, Window and Exterior Door Installation. *)
Task11 ==
    /\ pc = "tasks"
    /\ Len(schedule) = 10
    /\ UNCHANGED <<calculation_cache, call>>
    /\ schedule' = Append(schedule, Task(11, "Window and Exterior Door Installation",
                                     "Exterior",
                                     current_date, current_date + window_days,
                                     window_days,
                                     FALSE, <<10>>))
    /\ end_date' = current_date + window_days
    /\ UNCHANGED <<pc, inputs, caller, dashboard, clock, factors, idx, current_date, electrical_end,
                   electrical_fixture_end, hvac_end, plumbing_end>>

(* Lines 313-334: task 12, Plumbing Rough-in. *)
Task12 ==
    /\ pc = "tasks"
    /\ Len(schedule) = 11
    /\ UNCHANGED <<calculation_cache, call>>
    /\ schedule' = Append(schedule, Task(12, "Plumbing Rough-in", "Rough-ins",
                                     plumbing_start, plumbing_start + plumbing_days,
                                     plumbing_days,
                                     TRUE, <<9>>))
    /\ plumbing_end' = plumbing_start + plumbing_days
    /\ UNCHANGED <<pc, inputs, caller, dashboard, clock, factors, idx, current_date, electrical_end,
                   electrical_fixture_end, end_date, hvac_end>>

(* Lines 336-353: task 13, Electrical Rough-in. *)
Task13 ==
    /\ pc = "tasks"
    /\ Len(schedule) = 12
    /\ Calls("normal", 500, TRUE, 3, DefaultMaximumDays)
    /\ schedule' = Append(schedule, Task(13, "Electrical Rough-in", "Rough-ins",
                                     electrical_start,
                                     electrical_start + electrical_days,
                                     electrical_days,
                                     TRUE, <<9>>))
    /\ electrical_end' = electrical_start + electrical_days
    /\ UNCHANGED <<pc, inputs, caller, dashboard, clock, factors, idx, current_date,
                   electrical_fixture_end, end_date, hvac_end, plumbing_end>>

(* Lines 355-375: task 14, HVAC Rough-in. *)
Task14 ==
    /\ pc = "tasks"
    /\ Len(schedule) = 13
    /\ Calls("normal", 700, TRUE, 2, DefaultMaximumDays)
    /\ schedule' = Append(schedule, Task(14, "HVAC Rough-in", "Rough-ins",
                                     hvac_start, hvac_start + hvac_days, hvac_days,
                                     FALSE, <<9>>))
    /\ hvac_end' = hvac_start + hvac_days
    /\ current_date' = RoughInJoin(plumbing_end, electrical_end, hvac_end', end_date)
    /\ UNCHANGED <<pc, inputs, caller, dashboard, clock, factors, idx, electrical_end,
                   electrical_fixture_end, end_date, plumbing_end>>

(* Lines 377-394: task 15, Insulation Installation. *)
Task15 ==
    /\ pc = "tasks"
    /\ Len(schedule) = 14
    /\ Calls("normal", 1000, TRUE, 1, DefaultMaximumDays)
    /\ schedule' = Append(schedule, Task(15, "Insulation Installation",
                                     "Rough-ins",
                                     current_date, current_date + insulation_days,
                                     insulation_days,
                                     TRUE, <<12, 13, 14>>))
    /\ end_date' = current_date + insulation_days
    /\ current_date' = end_date' + 1
    /\ UNCHANGED <<pc, inputs, caller, dashboard, clock, factors, idx, electrical_end,
                   electrical_fixture_end, hvac_end, plumbing_end>>

(* Lines 398-415: task 16, Drywall Installation. *)
Task16 ==
    /\ pc = "tasks"
    /\ Len(schedule) = 15
    /\ Calls("normal", 400, TRUE, 3, DefaultMaximumDays)
    /\ schedule' = Append(schedule, Task(16, "Drywall Installation",
                                     "Interior Finishing",
                                     current_date, current_date + drywall_days,
                                     drywall_days,
                                     TRUE, <<15>>))
    /\ end_date' = current_date + drywall_days
    /\ current_date' = end_date' + 1
    /\ UNCHANGED <<pc, inputs, caller, dashboard, clock, factors, idx, electrical_end,
                   electrical_fixture_end, hvac_end, plumbing_end>>

(* Lines 417-437: task 17, Interior Door Installation. *)
Task17 ==
    /\ pc = "tasks"
    /\ Len(schedule) = 16
    /\ UNCHANGED <<calculation_cache, call>>
    /\ schedule' = Append(schedule, Task(17, "Interior Door Installation",
                                     "Interior Finishing",
                                     current_date, current_date + door_days, door_days,
                                     FALSE, <<16>>))
    /\ end_date' = current_date + door_days
    /\ UNCHANGED <<pc, inputs, caller, dashboard, clock, factors, idx, current_date, electrical_end,
                   electrical_fixture_end, hvac_end, plumbing_end>>

(* Lines 439-457: task 18, Painting. *)
Task18 ==
    /\ pc = "tasks"
    /\ Len(schedule) = 17
    /\ Calls("normal", 500, TRUE, 3, DefaultMaximumDays)
    /\ schedule' = Append(schedule, Task(18, "Painting", "Interior Finishing",
                                     painting_start, painting_start + painting_days,
                                     painting_days,
                                     TRUE, <<17>>))
    /\ current_date' = (painting_start + painting_days) + 1
    /\ UNCHANGED <<pc, inputs, caller, dashboard, clock, factors, idx, electrical_end,
                   electrical_fixture_end, end_date, hvac_end, plumbing_end>>

(* Lines 459-476: task 19, Flooring Installation. *)
Task19 ==
    /\ pc = "tasks"
    /\ Len(schedule) = 18
    /\ Calls("normal", 500, TRUE, 2, DefaultMaximumDays)
    /\ schedule' = Append(schedule, Task(19, "Flooring Installation",
                                     "Interior Finishing",
                                     current_date, current_date + flooring_days,
                                     flooring_days,
                                     TRUE, <<18>>))
    /\ end_date' = current_date + flooring_days
    /\ current_date' = end_date' + 1
    /\ UNCHANGED <<pc, inputs, caller, dashboard, clock, factors, idx, electrical_end,
                   electrical_fixture_end, hvac_end, plumbing_end>>

(* Lines 478-499: task 20, Cabinetry and Countertop Installation. *)
Task20 ==
    /\ pc = "tasks"
    /\ Len(schedule) = 19
    /\ UNCHANGED <<calculation_cache, call>>
    /\ schedule' = Append(schedule, Task(20, "Cabinetry and Countertop Installation",
                                     "Interior Finishing",
                                     current_date, current_date + cabinet_days,
                                     cabinet_days,
                                     TRUE, <<19>>))
    /\ end_date' = current_date + cabinet_days
    /\ current_date' = end_date' + 1
    /\ UNCHANGED <<pc, inputs, caller, dashboard, clock, factors, idx, electrical_end,
                   electrical_fixture_end, hvac_end, plumbing_end>>

(* Lines 503-523: task 21, Plumbing Fixtures Installation. *)
Task21 ==
    /\ pc = "tasks"
    /\ Len(schedule) = 20
    /\ UNCHANGED <<calculation_cache, call>>
    /\ schedule' = Append(schedule, Task(21, "Plumbing Fixtures Installation",
                                     "Final Finishing",
                                     current_date, current_date + plumbing_fixture_days,
                                     plumbing_fixture_days,
                                     FALSE, <<20>>))
    /\ end_date' = current_date + plumbing_fixture_days
    /\ UNCHANGED <<pc, inputs, caller, dashboard, clock, factors, idx, current_date, electrical_end,
                   electrical_fixture_end, hvac_end, plumbing_end>>

(* Lines 525-546: task 22, Electrical Fixtures Installation. *)
Task22 ==
    /\ pc = "tasks"
    /\ Len(schedule) = 21
    /\ Calls("normal", 1000, FALSE, 1, DefaultMaximumDays)
    /\ schedule' = Append(schedule, Task(22, "Electrical Fixtures Installation",
                                     "Final Finishing",
                                     electrical_fixture_start,
                                     electrical_fixture_start + electrical_fixture_days,
                                     electrical_fixture_days,
                                     FALSE, <<20>>))
    /\ electrical_fixture_end' = electrical_fixture_start + electrical_fixture_days
    /\ current_date' = FixtureJoin(end_date, electrical_fixture_end')
    /\ UNCHANGED <<pc, inputs, caller, dashboard, clock, factors, idx, electrical_end, end_date,
                   hvac_end, plumbing_end>>

(* Lines 548-565: task 23, Appliance Installation. *)
Task23 ==
    /\ pc = "tasks"
    /\ Len(schedule) = 22
    /\ UNCHANGED <<calculation_cache, call>>
    /\ schedule' = Append(schedule, Task(23, "Appliance Installation",
                                     "Final Finishing",
                                     current_date, current_date + appliance_days,
                                     appliance_days,
                                     TRUE, <<21, 22>>))
    /\ end_date' = current_date + appliance_days
    /\ current_date' = end_date' + 1
    /\ UNCHANGED <<pc, inputs, caller, dashboard, clock, factors, idx, electrical_end,
                   electrical_fixture_end, hvac_end, plumbing_end>>

(* Lines 567-585: task 24, Final Cleaning. *)
Task24 ==
    /\ pc = "tasks"
    /\ Len(schedule) = 23
    /\ Calls("normal", 2000, FALSE, 1, DefaultMaximumDays)
    /\ schedule' = Append(schedule, Task(24, "Final Cleaning",
                                     "Final Finishing",
                                     current_date, current_date + cleaning_days,
                                     cleaning_days,
                                     TRUE, <<23>>))
    /\ end_date' = current_date + cleaning_days
    /\ current_date' = end_date' + 1
    /\ UNCHANGED <<pc, inputs, caller, dashboard, clock, factors, idx, electrical_end,
                   electrical_fixture_end, hvac_end, plumbing_end>>

(* Lines 587-603: task 25, Final Inspection. *)
Task25 ==
    /\ pc = "tasks"
    /\ Len(schedule) = 24
    /\ UNCHANGED <<calculation_cache, call>>
    /\ schedule' = Append(schedule, Task(25, "Final Inspection",
                                     "Final Finishing",
                                     current_date, current_date + inspection_days,
                                     inspection_days,
                                     TRUE, <<24>>))
    /\ end_date' = current_date + inspection_days
    /\ pc' = "post"
    /\ idx' = 1
    /\ UNCHANGED <<inputs, caller, dashboard, clock, factors, current_date, electrical_end,
                   electrical_fixture_end, hvac_end, plumbing_end>>

----------------------------------------------------------------------------
(* Line 611: next(t for t in schedule if t['task_id'] == pred_id), the     *)
(* first such task; the guard of line 612 is Resolves.                     *)
Resolves(pred_id) == \E j \in 1..Len(schedule) : schedule[j].task_id = pred_id

PredTask_ByIndex(pred_id) == schedule[pred_id + 1]

PredTask(pred_id) ==
    schedule[CHOOSE j \in 1..Len(schedule) :
                /\ schedule[j].task_id = pred_id
                /\ \A m \in 1..(j - 1) : schedule[m].task_id # pred_id]

(* Lines 609-613: the names of the predecessors that resolve, in order. *)
Dependencies(task) ==
    LET resolved == SelectSeq(task.predecessor_tasks, Resolves)
    IN  [n \in 1..Len(resolved) |-> PredTask(resolved[n]).task_name]

(* Lines 625-639: the completion percentage of a task on the day today. *)
CompletionPercentage_Remaining(start, end, today) ==
    IF end < today THEN 100
    ELSE IF start > today THEN 0
    ELSE LET total_days == end - start
             days_left == end - today
         IN  IF total_days > 0
             THEN Min(100, Max(0, PyInt(days_left * 100, total_days)))
             ELSE 50

CompletionPercentage_Unclamped(start, end, today) ==
    IF start > today THEN 0
    ELSE LET total_days == end - start
             days_passed == today - start
         IN  IF total_days > 0
             THEN PyInt(days_passed * 100, total_days)
             ELSE 50

CompletionPercentage_FallbackZero(start, end, today) ==
    IF end < today THEN 100
    ELSE IF start > today THEN 0
    ELSE LET total_days == end - start
             days_passed == today - start
         IN  IF total_days > 0
             THEN Min(100, Max(0, PyInt(days_passed * 100, total_days)))
             ELSE 0

CompletionPercentage_BranchesSwapped(start, end, today) ==
    IF end < today THEN 0
    ELSE IF start > today THEN 100
    ELSE LET total_days == end - start
             days_passed == today - start
         IN  IF total_days > 0
             THEN Min(100, Max(0, PyInt(days_passed * 100, total_days)))
             ELSE 50

CompletionPercentage(start, end, today) ==
    IF end < today THEN 100
    ELSE IF start > today THEN 0
    ELSE LET total_days == end - start
             days_passed == today - start
         IN  IF total_days > 0
             THEN Min(100, Max(0, PyInt(days_passed * 100, total_days)))
             ELSE 50

(* Lines 607-639: one iteration of the loop over schedule; today is read   *)
(* from the clock in each iteration (line 619).                            *)
PostPass ==
    /\ pc = "post"
    /\ idx <= Len(schedule)
    /\ LET task == schedule[idx]
           today == clock
       IN  schedule' = [schedule EXCEPT ![idx] =
                [dependencies |-> Dependencies(task),
                 completion_percentage |->
                     CompletionPercentage(task.start_date, task.end_date, today)]
                @@ task]
    /\ idx' = idx + 1
    /\ UNCHANGED <<pc, inputs, caller, dashboard, clock, factors, calculation_cache, current_date,
                   end_date, branch_ends, call>>

(* Line 640: return schedule. *)
Return ==
    /\ pc = "post"
    /\ idx > Len(schedule)
    /\ pc' = "done"
    /\ UNCHANGED <<inputs, caller, dashboard, clock, factors, calculation_cache, schedule, current_date,
                   end_date, branch_ends, idx, call>>

(* Midnight passes while the loop of lines 607-639 runs: datetime.now()    *)
(* of line 619 reports the next day from then on.                          *)
Tick ==
    /\ pc = "post"
    /\ clock \in ClockValues
    /\ clock' = clock + 1
    /\ UNCHANGED <<pc, inputs, caller, dashboard, factors, calculation_cache, schedule, current_date,
                   end_date, branch_ends, idx, call>>

Next ==
    \/ Begin
    \/ Task1 \/ Task2 \/ Task3 \/ Task4 \/ Task5
    \/ Task6 \/ Task7 \/ Task8 \/ Task9 \/ Task10
    \/ Task11 \/ Task12 \/ Task13 \/ Task14 \/ Task15
    \/ Task16 \/ Task17 \/ Task18 \/ Task19 \/ Task20
    \/ Task21 \/ Task22 \/ Task23 \/ Task24 \/ Task25
    \/ PostPass \/ Return \/ Tick

Spec == Init /\ [][Next]_vars

----------------------------------------------------------------------------
(* calculate_duration on its own: after lines 17-89 have run, any call of  *)
(* the helper, with any arguments, on the cache the earlier calls left.    *)
MaxCached == 2
CalcAreaValues == {999, 3600, 10000}
CalcRatioValues == {0, 50}
CalcRoomValues == {1, 7}
CalcModes == {<<"sqrt", 30>>, <<"normal", 500>>}
CalcMinimumDays == {1, 3}
CalcMaximumDays == {5, DefaultMaximumDays}

InitCalc ==
    InitWith(CalcAreaValues, CalcRatioValues, CalcRoomValues, {2}, {DateValue(0)},
             {0})

CallDuration ==
    /\ pc = "tasks"
    /\ Len(schedule) = 0
    /\ \E m \in CalcModes, use_complexity \in BOOLEAN,
          minimum_days \in CalcMinimumDays, maximum_days \in CalcMaximumDays :
          /\ Cardinality(DOMAIN CacheAfter(m[1], m[2], use_complexity,
                                           minimum_days, maximum_days)) <= MaxCached
          /\ Calls(m[1], m[2], use_complexity, minimum_days, maximum_days)
    /\ UNCHANGED <<pc, inputs, caller, dashboard, clock, factors, schedule, current_date, end_date,
                   branch_ends, idx>>

NextCalc == Begin \/ CallDuration

SpecCalc == InitCalc /\ [][NextCalc]_vars

----------------------------------------------------------------------------
(* generate_schedule on arguments of every form: start_date as a date, a   *)
(* datetime, a date string, a string that is no date, a number and None;   *)
(* area_sqft below, inside and above its range; either key absent.         *)
InputStartValues ==
    {DateValue(5), DatetimeValue(5), StrValue(5), StrValue(NoDay), IntValue(5),
     NoneValue}
InputAreaValues == {-100, 999, 10000, 12000}
InputRoomValues == {1, 7}
InputClockValues == {0, 22}

(* The dict d with only the keys in keys. *)
Restrict(d, keys) == [k \in keys |-> d[k]]

(* The dicts of the set, each with every subset of its keys. *)
WithMissingKeys(dicts) ==
    UNION {{Restrict(d, keys) : keys \in SUBSET DOMAIN d} : d \in dicts}

InitInputs ==
    InitArgs(WithMissingKeys([start_date : InputStartValues,
                              area_sqft : InputAreaValues]),
             [building_area_ratio : {DefaultBuildingAreaRatio},
              num_rooms : InputRoomValues,
              num_windows_doors : {DefaultNumWindowsDoors}],
             InputClockValues)

SpecInputs == InitInputs /\ [][Next]_vars

----------------------------------------------------------------------------
(* Rounds of calls: a caller has the materials estimated and the schedule  *)
(* generated for a pair of arguments (as app.py does, lines 142-147), and  *)
(* then again for any pair of arguments.  The arguments and results of the *)
(* first round are kept in previous.  All calls take place on one day.     *)
RunAreaValues == {999, 10000, 12000}
RunRoomValues == {1, 7}
RunProjectInfos == [start_date : {DateValue(5)}, area_sqft : RunAreaValues]
RunAnalysisResults ==
    WithMissingKeys([building_area_ratio : {DefaultBuildingAreaRatio},
                     num_rooms : RunRoomValues,
                     num_windows_doors : {DefaultNumWindowsDoors}])

InitRuns == InitArgs(RunProjectInfos, RunAnalysisResults, {22})

(* Lines 5-237 of material_estimation.py: one call of estimate_materials.  *)
(* np.sqrt of a negative building area is nan, and round(nan) raises       *)
(* ValueError (line 87).                                                   *)
EstimateMaterials ==
    /\ pc = "idle"
    /\ materials = Unset
    /\ IF MaterialBuildingArea(analysis_result, project_info) < 0
       THEN pc' = "raised" /\ UNCHANGED materials
       ELSE /\ materials' = estimate_materials(analysis_result, project_info)
            /\ pc' = pc
    /\ UNCHANGED <<inputs, previous, dashboard, clock, factors, calculation_cache, schedule,
                   current_date, end_date, branch_ends, idx, call>>

(* The caller, holding both results, starts another round.  The locals of  *)
(* the finished call of generate_schedule are gone; the dictionary it      *)
(* filled is left as it is, and it is line 18 of the next call that binds  *)
(* calculation_cache to a new, empty one.                                  *)
Again ==
    /\ pc = "done"
    /\ materials # Unset
    /\ previous' = IF previous = <<>>
                   THEN << [project_info |-> project_info,
                            analysis_result |-> analysis_result,
                            materials |-> materials,
                            schedule |-> schedule] >>
                   ELSE previous
    /\ project_info' \in RunProjectInfos
    /\ analysis_result' \in RunAnalysisResults
    /\ materials' = Unset
    /\ pc' = "idle"
    /\ start_date' = Unset
    /\ area_sqft' = Unset
    /\ building_area_ratio' = Unset
    /\ num_rooms' = Unset
    /\ num_windows_doors' = Unset
    /\ complexity_factor' = Unset
    /\ size_factor' = Unset
    /\ schedule' = <<>>
    /\ current_date' = Unset
    /\ end_date' = Unset
    /\ plumbing_end' = Unset
    /\ electrical_end' = Unset
    /\ hvac_end' = Unset
    /\ electrical_fixture_end' = Unset
    /\ idx' = 0
    /\ call' = <<>>
    /\ UNCHANGED <<clock, calculation_cache, dashboard>>

NextRuns ==
    \/ EstimateMaterials
    \/ Begin
    \/ Task1 \/ Task2 \/ Task3 \/ Task4 \/ Task5
    \/ Task6 \/ Task7 \/ Task8 \/ Task9 \/ Task10
    \/ Task11 \/ Task12 \/ Task13 \/ Task14 \/ Task15
    \/ Task16 \/ Task17 \/ Task18 \/ Task19 \/ Task20
    \/ Task21 \/ Task22 \/ Task23 \/ Task24 \/ Task25
    \/ PostPass \/ Return
    \/ Again

SpecRuns == InitRuns /\ [][NextRuns]_vars

----------------------------------------------------------------------------
(* The schedule tab of the dashboard (app.py).  Every action of the user   *)
(* starts a run of the whole script; st.session_state is what lasts from   *)
(* one run to the next.  A run is four steps: the sidebar and the start of *)
(* tab 1 (Rerun), the Process Blueprint handler (ProcessBlueprint, the     *)
(* calls it makes, StoreResults; or SkipProcess), the completion controls  *)
(* of tab 3 (CompletionControls) and the charts (Charts).                  *)
(*  - st.session_state.project_info and .materials are the variables       *)
(*    project_info and materials; the other keys are in session_state, a   *)
(*    function from the keys present to their values.                      *)
(*  - A slider's key is f"{i}_{task_name}" for the task at index i; the    *)
(*    names are literals of the builder, one per position, so the key is   *)
(*    the position k = i + 1.                                              *)
(*  - A keyed widget returns the user's new value in the run the user      *)
(*    started by changing it, and otherwise the value it returned last.    *)
(*  - The charts are computed per task: the 3D timeline for a task in view *)
(*    with the visualization switched on, the completion meter, the phase  *)
(*    progress and the task counts.  The sums weighted by duration (float  *)
(*    arithmetic) and the phase bars of lines 1750-1800 are left out.      *)

Auto == "Auto-calculate based on dates"
Manual == "Enter manually"

(* The values the user and the clock are given. *)
DashAreaValues == {999, 10000}
DashProjectInfos == [start_date : {DateValue(5)}, area_sqft : DashAreaValues]
DashAnalysisResults ==
    [building_area_ratio : {DefaultBuildingAreaRatio}, num_rooms : {DefaultNumRooms},
     num_windows_doors : {DefaultNumWindowsDoors}]
DashClockValues == {9}
SliderTasks == {2, 4}
SliderValues == {30, 100}

(* The number of tasks the builder returns. *)
TaskCount == 25

(* Reading and writing a dict. *)
Put(d, key, value) == (key :> value) @@ d
SetDefault(d, key, value) == IF key \in DOMAIN d THEN d ELSE Put(d, key, value)

(* hasattr(st.session_state, 'using_manual_completion') and                *)
(* st.session_state.using_manual_completion (lines 927, 1356, 1491, 1562). *)
UsingManual(state) ==
    "using_manual_completion" \in DOMAIN state /\ state.using_manual_completion

(* 'manual_completion' in task. *)
HasManual(task) == "manual_completion" \in DOMAIN task

(* Lines 552-565: the value a slider is first given. *)
auto_completion(start, end, today) ==
    IF today < start THEN 0
    ELSE IF today > end THEN 100
    ELSE LET duration == Max(1, end - start)
             days_passed == today - start
         IN  Min(100, Max(0, PyInt(days_passed * 100, duration)))

(* Lines 930-938: the 3D timeline's completion of a task from the dates. *)
TimelineByDates(start, end, today) ==
    LET duration == end - start
        days_passed == today - start
    IN  IF days_passed < 0 THEN 0
        ELSE IF days_passed >= duration THEN 100
        ELSE Min(100, Max(0, PyInt(days_passed * 100, duration)))

(* Lines 1359-1366: the completion meter's completion of a task from the   *)
(* dates.                                                                  *)
MeterByDates(start, end, today) ==
    IF today < start THEN 0
    ELSE IF today > end THEN 100
    ELSE LET duration == end - start
             days_passed == today - start
         IN  IF duration > 0
             THEN Min(100, Max(0, PyInt(days_passed * 100, duration)))
             ELSE 100

(* Lines 1494-1503: the phase progress's completion of a task from the     *)
(* dates.                                                                  *)
PhaseByDates(start, end, today) ==
    IF today < start THEN 0
    ELSE IF today > end THEN 100
    ELSE LET task_days == Max(1, end - start)
             days_passed == today - start
         IN  Min(100, Max(0, PyInt(days_passed * 100, task_days)))

(* Lines 926-938, 1355-1366, 1490-1503: each chart takes the task's manual *)
(* value when the flag is set and the task has one, the dates otherwise.   *)
TimelineCompletion(state, task, today) ==
    IF UsingManual(state) /\ HasManual(task)
    THEN task.manual_completion
    ELSE TimelineByDates(task.start_date, task.end_date, today)

MeterCompletion(state, task, today) ==
    IF UsingManual(state) /\ HasManual(task)
    THEN task.manual_completion
    ELSE MeterByDates(task.start_date, task.end_date, today)

PhaseTaskCompletion(state, task, today) ==
    IF UsingManual(state) /\ HasManual(task)
    THEN task.manual_completion
    ELSE PhaseByDates(task.start_date, task.end_date, today)

(* Lines 1558-1617: the numbers of tasks completed, in progress and        *)
(* upcoming.                                                               *)
TaskCounts(state, today) ==
    LET tasks == state.schedule
        all == 1..Len(tasks)
    IN  IF UsingManual(state)
        THEN LET completed_tasks ==
                     Cardinality({k \in all : HasManual(tasks[k])
                                      /\ tasks[k].manual_completion = 100})
                 in_progress_with_completion ==
                     Cardinality({k \in all : HasManual(tasks[k])
                                      /\ tasks[k].manual_completion # 100
                                      /\ tasks[k].manual_completion > 0})
             IN  [completed |-> completed_tasks,
                  in_progress |-> in_progress_with_completion,
                  upcoming |-> Len(tasks) - completed_tasks
                                   - in_progress_with_completion]
        ELSE [completed |-> Cardinality({k \in all : tasks[k].end_date < today}),
              in_progress |-> Cardinality({k \in all :
                                  /\ tasks[k].start_date <= today
                                  /\ today <= tasks[k].end_date}),
              upcoming |-> Cardinality({k \in all : tasks[k].start_date > today})]

(* The state before any run of the script has been asked for a schedule. *)
InitDashboard ==
    /\ pc = "none"
    /\ project_info \in DashProjectInfos
    /\ analysis_result \in DashAnalysisResults
    /\ clock \in DashClockValues
    /\ start_date = Unset
    /\ area_sqft = Unset
    /\ building_area_ratio = Unset
    /\ num_rooms = Unset
    /\ num_windows_doors = Unset
    /\ complexity_factor = Unset
    /\ size_factor = Unset
    /\ calculation_cache = <<>>
    /\ schedule = <<>>
    /\ current_date = Unset
    /\ end_date = Unset
    /\ plumbing_end = Unset
    /\ electrical_end = Unset
    /\ hvac_end = Unset
    /\ electrical_fixture_end = Unset
    /\ idx = 0
    /\ call = <<>>
    /\ materials = Unset
    /\ previous = <<>>
    /\ session_state = FirstRun
    /\ at = "wait"
    /\ event = NoEvent
    /\ shown = <<>>

builder == <<pc, factors, calculation_cache, schedule, current_date, end_date,
             branch_ends, idx, call>>

(* The widgets the last run put on the page: the radio when there is a     *)
(* schedule (line 520), the sliders and the Apply button in manual mode    *)
(* (lines 544, 593, 700).                                                  *)
RadioOnPage == session_state.schedule # <<>>

SlidersOnPage ==
    /\ session_state.schedule # <<>>
    /\ "completion_mode" \in DOMAIN session_state
    /\ session_state.completion_mode = Manual

UserEvents ==
    {UserEvent("process", "", 0, 0), UserEvent("none", "", 0, 0)}
    \cup (IF RadioOnPage
          THEN {UserEvent("mode", m, 0, 0) : m \in {Auto, Manual}}
          ELSE {})
    \cup (IF SlidersOnPage
          THEN {UserEvent("slider", "", k, v) : k \in SliderTasks, v \in SliderValues}
               \cup {UserEvent("apply", "", 0, 0)}
          ELSE {})

(* The user acts and the script runs from its top (lines 49-128). *)
Rerun ==
    /\ at = "wait"
    /\ event' \in UserEvents
    /\ at' = "tab1"
    /\ UNCHANGED <<inputs, caller, clock, builder, session_state, shown>>

(* Lines 129-140: the button was pressed; the blueprint is analysed and    *)
(* the two calls are made with the project information of the sidebar      *)
(* (lines 68-74).                                                          *)
ProcessBlueprint ==
    /\ at = "tab1"
    /\ event.kind = "process"
    /\ pc = "none"
    /\ project_info' \in DashProjectInfos
    /\ analysis_result' \in DashAnalysisResults
    /\ materials' = Unset
    /\ pc' = "idle"
    /\ UNCHANGED <<previous, dashboard, clock, factors, calculation_cache, schedule,
                   current_date, end_date, branch_ends, idx, call>>

(* Lines 143 and 147: both results are stored; the locals of the call are  *)
(* gone.                                                                   *)
StoreResults ==
    /\ at = "tab1"
    /\ pc = "done"
    /\ materials # Unset
    /\ session_state' = Put(session_state, "schedule", schedule)
    /\ at' = "tab3"
    /\ pc' = "none"
    /\ start_date' = Unset
    /\ area_sqft' = Unset
    /\ building_area_ratio' = Unset
    /\ num_rooms' = Unset
    /\ num_windows_doors' = Unset
    /\ complexity_factor' = Unset
    /\ size_factor' = Unset
    /\ schedule' = <<>>
    /\ current_date' = Unset
    /\ end_date' = Unset
    /\ plumbing_end' = Unset
    /\ electrical_end' = Unset
    /\ hvac_end' = Unset
    /\ electrical_fixture_end' = Unset
    /\ idx' = 0
    /\ call' = <<>>
    /\ UNCHANGED <<inputs, caller, clock, calculation_cache, event, shown>>

(* Line 129: the button was not pressed. *)
SkipProcess ==
    /\ at = "tab1"
    /\ event.kind # "process"
    /\ at' = "tab3"
    /\ UNCHANGED <<inputs, caller, clock, builder, session_state, event, shown>>

(* Lines 514-529: the two keys are created if absent and the radio's value *)
(* is stored.                                                              *)
ModeSelected(state) ==
    LET defaults == SetDefault(SetDefault(state, "completion_mode", Auto),
                               "using_manual_completion", FALSE)
        completion_mode == IF event.kind = "mode" THEN event.mode
                           ELSE defaults.completion_mode
    IN  Put(defaults, "completion_mode", completion_mode)

(* Lines 532-536: automatic mode switches the manual values off. *)
ManualSwitchedOff_Never(state) == state

ManualSwitchedOff(state) ==
    IF state.completion_mode = Auto /\ state.using_manual_completion
    THEN Put(state, "using_manual_completion", FALSE)
    ELSE state

(* Lines 546-567: manual_completion is created once, from the dates. *)
SlidersInitialised(state, today) ==
    IF "manual_completion" \in DOMAIN state THEN state
    ELSE Put(state, "manual_completion",
             [k \in 1..Len(state.schedule) |->
                 auto_completion(state.schedule[k].start_date,
                                 state.schedule[k].end_date, today)])

(* Lines 570-598: every slider is drawn and its value stored. *)
SlidersRead_IntoTasks(state) ==
    LET moved == [k \in 1..Len(state.schedule) |->
                     IF event.kind = "slider" /\ event.task = k
                     THEN event.value
                     ELSE state.manual_completion[k]]
    IN  Put(Put(state, "manual_completion", moved),
            "schedule",
            [k \in 1..Len(state.schedule) |->
                IF event.kind = "slider" /\ event.task = k
                THEN Put(state.schedule[k], "manual_completion", moved[k])
                ELSE state.schedule[k]])

SlidersRead(state) ==
    Put(state, "manual_completion",
        [k \in 1..Len(state.schedule) |->
            IF event.kind = "slider" /\ event.task = k
            THEN event.value
            ELSE state.manual_completion[k]])

(* Lines 700-708: Apply Completion Percentages. *)
Applied_MovedOnly(state) ==
    IF event.kind = "apply"
    THEN Put(Put(state, "schedule",
                 [k \in 1..Len(state.schedule) |->
                     IF k \in SliderTasks
                     THEN Put(state.schedule[k], "manual_completion",
                              state.manual_completion[k])
                     ELSE state.schedule[k]]),
             "using_manual_completion", TRUE)
    ELSE state

Applied(state) ==
    IF event.kind = "apply"
    THEN Put(Put(state, "schedule",
                 [k \in 1..Len(state.schedule) |->
                     Put(state.schedule[k], "manual_completion",
                         state.manual_completion[k])]),
             "using_manual_completion", TRUE)
    ELSE state

(* Lines 472-708: tab 3 down to the Apply button. *)
CompletionControls ==
    /\ at = "tab3"
    /\ IF session_state.schedule = <<>>
       THEN /\ at' = "wait"
            /\ shown' = <<>>
            /\ UNCHANGED session_state
       ELSE /\ LET mode == ManualSwitchedOff(ModeSelected(session_state))
               IN  session_state' =
                       IF mode.completion_mode = Manual
                       THEN Applied(SlidersRead(SlidersInitialised(mode, clock)))
                       ELSE mode
            /\ at' = "charts"
            /\ UNCHANGED shown
    /\ UNCHANGED <<inputs, caller, clock, builder, event>>

(* Lines 716-1620: the charts of this run. *)
Charts ==
    /\ at = "charts"
    /\ LET tasks == session_state.schedule
           today == clock
       IN  shown' = << [today |-> today,
                        timeline |-> [k \in 1..Len(tasks) |->
                            TimelineCompletion(session_state, tasks[k], today)],
                        meter |-> [k \in 1..Len(tasks) |->
                            MeterCompletion(session_state, tasks[k], today)],
                        phase |-> [k \in 1..Len(tasks) |->
                            PhaseTaskCompletion(session_state, tasks[k], today)],
                        counts |-> TaskCounts(session_state, today)] >>
    /\ at' = "wait"
    /\ UNCHANGED <<inputs, caller, clock, builder, session_state, event>>

NextDashboard ==
    \/ Rerun
    \/ ProcessBlueprint
    \/ EstimateMaterials
    \/ Begin
    \/ Task1 \/ Task2 \/ Task3 \/ Task4 \/ Task5
    \/ Task6 \/ Task7 \/ Task8 \/ Task9 \/ Task10
    \/ Task11 \/ Task12 \/ Task13 \/ Task14 \/ Task15
    \/ Task16 \/ Task17 \/ Task18 \/ Task19 \/ Task20
    \/ Task21 \/ Task22 \/ Task23 \/ Task24 \/ Task25
    \/ PostPass \/ Return
    \/ StoreResults
    \/ SkipProcess
    \/ CompletionControls
    \/ Charts

SpecDashboard == InitDashboard /\ [][NextDashboard]_vars

----------------------------------------------------------------------------
(* Properties. *)

(* The arguments are in the ranges the contract calls valid. *)
ValidInput ==
    /\ project_info.area_sqft \in 0..MAX_REASONABLE_SQFT
    /\ analysis_result.building_area_ratio \in 0..RatioUnit
    /\ analysis_result.num_rooms >= 0
    /\ analysis_result.num_windows_doors >= 0

(* generate_schedule has returned schedule. *)
Returned == pc = "done"

(* The latest end date among the tasks with the ids in S. *)
MaxEnd(S) ==
    CHOOSE d \in {schedule[k].end_date : k \in S} :
        \A k \in S : schedule[k].end_date <= d

(* C1: for every valid input the returned schedule holds exactly 25 tasks, *)
(* and the task at position k carries task_id k: the ids are 1, 2, ..., 25 *)
(* in list order, none repeated or skipped.  (The ids are in order while   *)
(* the list is built, too.)                                                *)
C1_TaskIds ==
    ValidInput =>
        /\ \A k \in 1..Len(schedule) : schedule[k].task_id = k
        /\ Returned => Len(schedule) = 25

C1_Witness ==
    /\ Returned
    /\ ValidInput
    /\ project_info.area_sqft = MAX_REASONABLE_SQFT
    /\ analysis_result.num_rooms > MAX_ROOMS
    /\ Len(schedule) = 25

(* C2: join invariant: in every returned schedule task 15 starts the day   *)
(* after the latest end date of tasks 11, 12, 13 and 14, and task 23       *)
(* starts the day after the latest end date of tasks 21 and 22.            *)
C2_Joins ==
    Returned =>
        /\ schedule[15].start_date = MaxEnd({11, 12, 13, 14}) + 1
        /\ schedule[23].start_date = MaxEnd({21, 22}) + 1

(* The windows (task 11) end strictly last of the four branches, and the   *)
(* two fixture branches end on different days.                             *)
C2_Witness ==
    /\ Returned
    /\ schedule[11].end_date > MaxEnd({12, 13, 14})
    /\ schedule[21].end_date > schedule[22].end_date

(* C3: in every returned schedule task 6 (Foundation Curing) starts on the *)
(* end date of task 5, and task 7 starts the day after task 6 ends.        *)
C3_CuringStartsAtPourEnd ==
    Returned =>
        /\ schedule[6].start_date = schedule[5].end_date
        /\ schedule[7].start_date = schedule[6].end_date + 1

(* C4: within the sequential chains every task starts exactly one day      *)
(* after the previous task ends: start_date(k) = end_date(k-1) + 1 for k   *)
(* in {2,3,4,5,8,9,10,16,17,18,19,20,24,25}, from the moment task k is     *)
(* scheduled on.                                                           *)
ChainIds == {2, 3, 4, 5, 8, 9, 10, 16, 17, 18, 19, 20, 24, 25}

C4_SequentialChain ==
    \A k \in ChainIds :
        k <= Len(schedule) =>
            schedule[k].start_date = schedule[k - 1].end_date + 1

(* Task 17 takes at least a day, so the day after its end is not the day   *)
(* it started on, and painting (task 18) has been scheduled after it.      *)
C4_Witness ==
    /\ Returned
    /\ ValidInput
    /\ schedule[17].end_date > schedule[17].start_date
    /\ schedule[18].start_date = schedule[17].end_date + 1

(* C5: at each fork the branches share one start date: tasks 11, 12, 13    *)
(* and 14 start the day after task 10 ends, tasks 21 and 22 the day after  *)
(* task 20 ends; this holds in every state from the moment a branch is     *)
(* scheduled, so scheduling a later branch never moves an earlier one.     *)
C5_ForkSharedStart ==
    /\ \A k \in {11, 12, 13, 14} :
          k <= Len(schedule) =>
              schedule[k].start_date = schedule[10].end_date + 1
    /\ \A k \in {21, 22} :
          k <= Len(schedule) =>
              schedule[k].start_date = schedule[20].end_date + 1

(* All branches are scheduled and they are of different lengths. *)
C5_Witness ==
    /\ Len(schedule) >= 22
    /\ schedule[11].end_date > schedule[11].start_date
    /\ schedule[11].end_date # schedule[12].end_date
    /\ schedule[13].end_date # schedule[14].end_date
    /\ schedule[21].end_date # schedule[22].end_date

(* C6: for every valid input, every task of the schedule has               *)
(* end_date >= start_date.                                                 *)
C6_EndNotBeforeStart ==
    ValidInput =>
        \A k \in 1..Len(schedule) : schedule[k].end_date >= schedule[k].start_date

(* A valid input whose first task has no length at all (end = start), and  *)
(* whose windows take their full 30 days.                                  *)
C6_Witness ==
    /\ Returned
    /\ ValidInput
    /\ schedule[1].end_date = schedule[1].start_date
    /\ schedule[11].end_date = schedule[11].start_date + 30

(* C7: for every task other than 6, 23 and 25 the recorded duration is the *)
(* number of days from start_date to end_date, and it is the minimum of    *)
(* the task's duration formula (evaluated afresh, without the cache) and   *)
(* the task's maximum.                                                     *)
DurationFormula(k) ==
    CASE k = 1 -> ScaledDuration("sqrt", 50, FALSE, 1)
      [] k = 2 -> ScaledDuration("sqrt", 50, TRUE, 1)
      [] k = 3 -> ScaledDuration("sqrt", 30, TRUE, 2)
      [] k = 4 -> ScaledDuration("sqrt", 70, TRUE, 1)
      [] k = 5 -> ScaledDuration("sqrt", 100, TRUE, 1)
      [] k = 7 -> ScaledDuration("normal", 500, TRUE, 2)
      [] k = 8 -> ScaledDuration("normal", 400, TRUE, 3)
      [] k = 9 -> ScaledDuration("normal", 500, TRUE, 2)
      [] k = 10 -> ScaledDuration("normal", 600, TRUE, 2)
      [] k = 11 -> window_days_scaled
      [] k = 12 -> plumbing_days_scaled
      [] k = 13 -> ScaledDuration("normal", 500, TRUE, 3)
      [] k = 14 -> ScaledDuration("normal", 700, TRUE, 2)
      [] k = 15 -> ScaledDuration("normal", 1000, TRUE, 1)
      [] k = 16 -> ScaledDuration("normal", 400, TRUE, 3)
      [] k = 17 -> door_days_scaled
      [] k = 18 -> ScaledDuration("normal", 500, TRUE, 3)
      [] k = 19 -> ScaledDuration("normal", 500, TRUE, 2)
      [] k = 20 -> cabinet_days_scaled
      [] k = 21 -> plumbing_fixture_days_scaled
      [] k = 22 -> ScaledDuration("normal", 1000, FALSE, 1)
      [] k = 24 -> ScaledDuration("normal", 2000, FALSE, 1)

MaximumDays(k) ==
    CASE k = 17 -> 20
      [] k = 20 -> 15
      [] k = 21 -> 10
      [] OTHER -> DefaultMaximumDays

C7_DurationMatches ==
    \A k \in 1..Len(schedule) :
        k \notin {6, 23, 25} =>
            /\ schedule[k].duration = schedule[k].end_date - schedule[k].start_date
            /\ schedule[k].duration = Min(DurationFormula(k), MaximumDays(k))

(* Tasks 7 and 13 differ in minimum_days alone and get different           *)
(* durations; task 11 is cut by its maximum.                               *)
C7_Witness ==
    /\ Returned
    /\ schedule[13].duration # schedule[7].duration
    /\ DurationFormula(11) > MaximumDays(11)
    /\ schedule[11].duration = MaximumDays(11)

(* C8: every call calculate_duration(mode, divisor, use_complexity,        *)
(* min_days, max_days) returns min(max_days, floor(R * size_factor)) with  *)
(* R = floor(max(min_days, base) * complexity_factor) if use_complexity    *)
(* else max(min_days, base), base = floor(sqrt(area_sqft) / divisor) for   *)
(* mode "sqrt" and floor(area_sqft / divisor) otherwise.                   *)
ClosedForm(c) ==
    LET base == IF c.base_factor = "sqrt"
                THEN SqrtDiv(area_sqft, c.divisor)
                ELSE area_sqft \div c.divisor
        floored == Max(c.minimum_days, base)
        R == IF c.use_complexity
             THEN (floored * complexity_factor) \div CFUnit
             ELSE floored
    IN  Min(c.maximum_days, (R * size_factor) \div SFUnit)

C8_ReturnsClosedForm ==
    Len(call) = 1 => call[1].ret = ClosedForm(call[1])

(* C9: caching does not change output: within one run, after any sequence  *)
(* of calls, a call of calculate_duration returns what the uncached        *)
(* computation gives for that call's own arguments.                        *)
C9_CachedEqualsUncached ==
    Len(call) = 1 =>
        call[1].ret = ComputeDuration(call[1].base_factor, call[1].divisor,
                                      call[1].use_complexity, call[1].minimum_days,
                                      call[1].maximum_days)

(* C10: the complexity factor computed on the clamped features never       *)
(* exceeds 3.0 and does not decrease when building_area_ratio, num_rooms   *)
(* or num_windows_doors is raised with the other two held fixed.           *)
C10_ComplexityMonotoneCapped ==
    (pc = "tasks" /\ Len(schedule) = 0) =>
        /\ complexity_factor <= MAX_COMPLEXITY
        /\ complexity_factor =
               ComplexityFactor(building_area_ratio, num_rooms, num_windows_doors)
        /\ \A ratio \in building_area_ratio..RatioUnit :
              ComplexityFactor(ratio, num_rooms, num_windows_doors)
                  >= complexity_factor
        /\ \A rooms \in analysis_result.num_rooms..(MAX_ROOMS + 10) :
              ComplexityFactor(building_area_ratio, ClampRooms(rooms),
                               num_windows_doors) >= complexity_factor
        /\ \A windows_doors \in
                  analysis_result.num_windows_doors..(MAX_WINDOWS_DOORS + 20) :
              ComplexityFactor(building_area_ratio, num_rooms,
                               ClampWindowsDoors(windows_doors)) >= complexity_factor

(* The sum of the terms is above 3.0 and the factor is cut to 3.0; the     *)
(* room count came in above its clamp.                                     *)
C10_Witness ==
    /\ pc = "tasks"
    /\ complexity_factor = MAX_COMPLEXITY
    /\ analysis_result.num_rooms > MAX_ROOMS
    /\ CFUnit + building_area_ratio * 5 + num_rooms * 100 + num_windows_doors * 50
           > MAX_COMPLEXITY

----------------------------------------------------------------------------
(* The completion percentages (lines 618-639). *)

(* The loop of lines 607-639 has handled the task at position k. *)
Completed(k) == "completion_percentage" \in DOMAIN schedule[k]

(* This step is the iteration of the loop that handles the task at idx. *)
PostPassStep == pc = "post" /\ idx' = idx + 1

(* q is the floor of n / d. *)
IsFloorOf(q, n, d) == q * d <= n /\ n < (q + 1) * d

(* C11, as stated: for every task and every value of today, the            *)
(* completion_percentage the loop stores is 0 when today is before the     *)
(* task's start date, 100 when today is after its end date, and otherwise  *)
(* the floor of 100 * (today - start_date) / (end_date - start_date).      *)
C11_FloorOfElapsedShare ==
    [][PostPassStep =>
          LET task == schedule'[idx]
              today == clock
          IN  IF today < task.start_date THEN task.completion_percentage = 0
              ELSE IF today > task.end_date THEN task.completion_percentage = 100
              ELSE IsFloorOf(task.completion_percentage,
                             100 * (today - task.start_date),
                             task.end_date - task.start_date)]_vars

(* C11, amended: the same, with the quotient taken only when end_date is   *)
(* after start_date; a task that starts and ends on today gets 50.         *)
C11_FloorOfElapsedShareOrFallback ==
    [][PostPassStep =>
          LET task == schedule'[idx]
              today == clock
          IN  IF today < task.start_date THEN task.completion_percentage = 0
              ELSE IF today > task.end_date THEN task.completion_percentage = 100
              ELSE IF task.end_date > task.start_date
                   THEN IsFloorOf(task.completion_percentage,
                                  100 * (today - task.start_date),
                                  task.end_date - task.start_date)
                   ELSE task.completion_percentage = 50]_vars

(* One task was part-way through when the loop reached it, and another     *)
(* started and ended on the day the loop reached it.                       *)
C11_Witness ==
    /\ Returned
    /\ \E k \in 1..Len(schedule) :
          /\ schedule[k].start_date < schedule[k].end_date
          /\ schedule[k].completion_percentage \in 1..99
    /\ \E k \in 1..Len(schedule) :
          /\ schedule[k].start_date = schedule[k].end_date
          /\ schedule[k].completion_percentage = 50

(* C12: completion_percentage is an integer in [0,100] for every task of   *)
(* every returned schedule, wherever today lies relative to the task's     *)
(* dates (and for every task the loop has handled, before the return).     *)
C12_CompletionInRange ==
    /\ \A k \in 1..Len(schedule) :
          Completed(k) => schedule[k].completion_percentage \in 0..100
    /\ Returned => \A k \in 1..Len(schedule) : Completed(k)

(* A returned schedule with a finished task, a task part-way through and a *)
(* task that has not started.                                              *)
C12_Witness ==
    /\ Returned
    /\ \E k \in 1..Len(schedule) :
          schedule[k].end_date < clock /\ schedule[k].completion_percentage = 100
    /\ \E k \in 1..Len(schedule) :
          /\ schedule[k].start_date < clock /\ clock < schedule[k].end_date
          /\ schedule[k].completion_percentage \in 1..99
    /\ \E k \in 1..Len(schedule) :
          schedule[k].start_date > clock /\ schedule[k].completion_percentage = 0

(* C13: when the loop reaches a task that is in progress and whose         *)
(* total_days (end_date - start_date) is 0, the iteration completes and    *)
(* stores the fixed value 50; and a stored 50 comes either from that       *)
(* branch or from the interpolation (total_days > 0, floor equal to 50),   *)
(* never from the not-started or the past-end branch.                      *)
C13_ZeroLengthFallback ==
    [][PostPassStep =>
          LET task == schedule'[idx]
              today == clock
              total_days == task.end_date - task.start_date
              in_progress == task.start_date <= today /\ today <= task.end_date
          IN  /\ "completion_percentage" \in DOMAIN task
              /\ (in_progress /\ total_days = 0) => task.completion_percentage = 50
              /\ task.completion_percentage = 50 =>
                     /\ in_progress
                     /\ total_days > 0 =>
                            IsFloorOf(50, 100 * (today - task.start_date), total_days)]_vars

(* The returned schedule holds a task that started and ended on the day    *)
(* the loop handled it, with the fallback value.                           *)
C13_Witness ==
    /\ Returned
    /\ \E k \in 1..Len(schedule) :
          /\ schedule[k].start_date = schedule[k].end_date
          /\ schedule[k].start_date \in {clock, clock - 1}
          /\ schedule[k].completion_percentage = 50

(* C20: in every returned schedule each id in a task's predecessor_tasks   *)
(* is smaller than the task's own id and is the id of a task earlier in    *)
(* the list, and the task's dependencies are the task_names of those       *)
(* predecessors, one per id and in the same order; task 1 is the only task *)
(* without dependencies.                                                   *)
C20_DependenciesResolve ==
    Returned =>
        \A k \in 1..Len(schedule) :
            LET task == schedule[k]
                preds == task.predecessor_tasks
            IN  /\ \A n \in 1..Len(preds) :
                      /\ preds[n] < task.task_id
                      /\ \E j \in 1..(k - 1) :
                            /\ schedule[j].task_id = preds[n]
                            /\ \A m \in 1..Len(schedule) :
                                  schedule[m].task_id = preds[n] => m = j
                            /\ Len(task.dependencies) >= n
                            /\ task.dependencies[n] = schedule[j].task_name
                /\ Len(task.dependencies) = Len(preds)
                /\ task.dependencies = <<>> <=> k = 1

(* A returned schedule in which a task with three predecessors carries     *)
(* their three names.                                                      *)
C20_Witness ==
    /\ Returned
    /\ schedule[15].predecessor_tasks = <<12, 13, 14>>
    /\ schedule[15].dependencies =
           <<schedule[12].task_name, schedule[13].task_name, schedule[14].task_name>>
    /\ schedule[12].task_name # schedule[13].task_name
    /\ schedule[1].dependencies = <<>>

----------------------------------------------------------------------------
(* The forms of the arguments (lines 21-47). *)

(* The area generate_schedule is given (line 22). *)
GivenArea == Get(project_info, "area_sqft", DefaultAreaSqft)

(* The call has got past lines 17-65. *)
Started == pc \in {"tasks", "post", "done"}

(* C16, as stated: out-of-range numeric inputs never produce an error:     *)
(* for every numeric area_sqft, below 0 as well as above 10000,            *)
(* generate_schedule does not raise, works with area_sqft clamped into     *)
(* [0, 10000] and returns 25 tasks.                                        *)
C16_OutOfRangeAreaNeverRaises ==
    /\ pc # "raised"
    /\ Started => area_sqft = Max(0, Min(GivenArea, MAX_REASONABLE_SQFT))
    /\ Returned => Len(schedule) = 25

(* start_date is given and is neither a date nor a datetime, nor a string  *)
(* that denotes a day.                                                     *)
WrongTypedStart ==
    /\ "start_date" \in DOMAIN project_info
    /\ \/ project_info.start_date.form \in {"None", "int"}
       \/ project_info.start_date = StrValue(NoDay)

(* C17: when start_date is unparseable or of the wrong type (None, a       *)
(* number, a string that is no date) and area_sqft is not negative,        *)
(* generate_schedule does not raise: it starts from the current timestamp, *)
(* task 1 starts on the current day, and 25 tasks are returned.            *)
C17_WrongTypedStartFallsBackToNow ==
    (WrongTypedStart /\ GivenArea >= 0) =>
        /\ pc # "raised"
        /\ pc = "tasks" => start_date = clock
        /\ Started => start_date \in {clock, clock - 1}
        /\ Len(schedule) >= 1 => schedule[1].start_date = start_date
        /\ Returned => Len(schedule) = 25

(* A schedule returned for start_date = None on a day other than day 0:    *)
(* task 1 starts on the day of the call.                                   *)
C17_Witness ==
    /\ Returned
    /\ "start_date" \in DOMAIN project_info
    /\ project_info.start_date = NoneValue
    /\ clock = 22
    /\ schedule[1].start_date = 22
    /\ Len(schedule) = 25

(* C18, as stated: start_date is accepted as a date, as a well-formed date *)
(* string and as a datetime at midnight: for a day D given in any of the   *)
(* three forms, task 1 of the schedule starts on D.                        *)
C18_ThreeFormsStartOnDay ==
    ( /\ "start_date" \in DOMAIN project_info
      /\ project_info.start_date.form \in {"date", "datetime", "str"}
      /\ project_info.start_date.value # NoDay
      /\ Len(schedule) >= 1 ) =>
        schedule[1].start_date = project_info.start_date.value

----------------------------------------------------------------------------
(* Repeated calls (rounds of SpecRuns). *)

(* The arguments and results of the first round. *)
First == previous[1]

(* The feature record r with the defaults 0.5, 1 and 2 written out for the *)
(* fields it lacks.                                                        *)
ExplicitDefaults(r) ==
    [building_area_ratio |->
         IF "building_area_ratio" \in DOMAIN r THEN r.building_area_ratio ELSE 50,
     num_rooms |-> IF "num_rooms" \in DOMAIN r THEN r.num_rooms ELSE 1,
     num_windows_doors |->
         IF "num_windows_doors" \in DOMAIN r THEN r.num_windows_doors ELSE 2]

AboveMaximumAgainstMaximum ==
    /\ previous # <<>>
    /\ analysis_result = First.analysis_result
    /\ project_info.start_date = First.project_info.start_date
    /\ \/ project_info.area_sqft > 10000 /\ First.project_info.area_sqft = 10000
       \/ project_info.area_sqft = 10000 /\ First.project_info.area_sqft > 10000

(* C15: an area_sqft above 10000 is treated as exactly 10000 throughout:   *)
(* generate_schedule and estimate_materials each return for it what they   *)
(* return for area_sqft = 10000 with all other inputs equal.               *)
C15_AreaAboveMaximumIsMaximum ==
    AboveMaximumAgainstMaximum =>
        /\ Returned => schedule = First.schedule
        /\ materials # Unset => materials = First.materials

(* Both functions have returned for area_sqft = 12000 what they returned   *)
(* for 10000, and not what they return for a smaller area.                 *)
C15_Witness ==
    /\ Returned
    /\ materials # Unset
    /\ previous # <<>>
    /\ analysis_result = First.analysis_result
    /\ project_info.area_sqft = 12000
    /\ First.project_info.area_sqft = 10000
    /\ schedule = First.schedule
    /\ materials = First.materials
    /\ Len(schedule) = 25
    /\ Len(materials) = 17
    /\ materials[17].cost = 7 * 10000 * ExplicitDefaults(analysis_result).building_area_ratio

(* C19: a feature record with missing fields is not an error:              *)
(* generate_schedule returns the schedule it returns when the missing      *)
(* fields are supplied with their defaults (building_area_ratio = 0.5,     *)
(* num_rooms = 1, num_windows_doors = 2), for every subset of missing      *)
(* fields.                                                                 *)
C19_MissingFieldsTakeDefaults ==
    /\ pc # "raised"
    /\ ( /\ Returned
         /\ previous # <<>>
         /\ project_info = First.project_info
         /\ ExplicitDefaults(analysis_result)
                = ExplicitDefaults(First.analysis_result) ) =>
           schedule = First.schedule

(* The schedule returned for the empty feature record is the one returned  *)
(* before for the record with the three defaults written out.              *)
C19_Witness ==
    /\ Returned
    /\ previous # <<>>
    /\ project_info = First.project_info
    /\ DOMAIN analysis_result = {}
    /\ DOMAIN First.analysis_result
           = {"building_area_ratio", "num_rooms", "num_windows_doors"}
    /\ First.analysis_result = ExplicitDefaults(analysis_result)
    /\ schedule = First.schedule
    /\ Len(schedule) = 25

----------------------------------------------------------------------------
(* Ordering, durations and the critical path (lines 91-605). *)

(* The position in schedule of the task with id p. *)
TaskWithId(p) == CHOOSE j \in 1..Len(schedule) : schedule[j].task_id = p

(* C25: no task starts before a declared predecessor has finished: for    *)
(* every valid input, every task t of the returned schedule and every id p *)
(* in t's predecessor_tasks, start_date(t) >= end_date(p).                 *)
C25_StartsAfterPredecessors ==
    (Returned /\ ValidInput) =>
        \A k \in 1..Len(schedule) :
            \A n \in 1..Len(schedule[k].predecessor_tasks) :
                schedule[k].start_date >=
                    schedule[TaskWithId(schedule[k].predecessor_tasks[n])].end_date

(* The tasks whose duration comes from calculate_duration, and the         *)
(* minimum_days each of them passes (lines 98-569).                        *)
CalculatedIds == {1, 2, 3, 4, 5, 7, 8, 9, 10, 13, 14, 15, 16, 18, 19, 22, 24}

MinimumDays(k) ==
    CASE k \in {3, 7, 9, 10, 14, 19} -> 2
      [] k \in {8, 13, 16, 18} -> 3
      [] OTHER -> 1

(* C26: minimum_days is a lower bound on the scheduled duration: for every *)
(* valid input (area_sqft below 1000 included) every task has a duration   *)
(* of at least one day, a task computed by calculate_duration has at least *)
(* the minimum_days passed for it, and no task has start_date = end_date.  *)
C26_MinimumDaysIsLowerBound ==
    ValidInput =>
        \A k \in 1..Len(schedule) :
            /\ schedule[k].duration >= 1
            /\ k \in CalculatedIds => schedule[k].duration >= MinimumDays(k)
            /\ schedule[k].start_date # schedule[k].end_date

----------------------------------------------------------------------------
(* The completion percentage as a function of today (lines 618-639). *)

(* How many days before a task's start and after its end today ranges. *)
TodayMargin == 2

(* The days today is drawn from for the task at position k. *)
TodayValues(k) ==
    (schedule[k].start_date - TodayMargin)..(schedule[k].end_date + TodayMargin)

(* What lines 625-639 compute for the task at position k on the day today. *)
CompletionOn(k, today) ==
    CompletionPercentage(schedule[k].start_date, schedule[k].end_date, today)

(* C30: for a fixed task (zero-length tasks included) the completion       *)
(* percentage never decreases as today advances: today1 <= today2 implies  *)
(* completion(today1) <= completion(today2); and it is 100 for every today *)
(* on or after end_date when end_date is after start_date.                 *)
C30_CompletionMonotoneInToday ==
    Returned =>
        \A k \in 1..Len(schedule) :
            /\ \A today1, today2 \in TodayValues(k) :
                  today1 <= today2 =>
                      CompletionOn(k, today1) <= CompletionOn(k, today2)
            /\ schedule[k].end_date > schedule[k].start_date =>
                  \A today \in TodayValues(k) :
                      today >= schedule[k].end_date => CompletionOn(k, today) = 100

(* A returned schedule with a zero-length task, whose value steps from 0   *)
(* to 50 to 100 over three days, and a task of several days, whose value   *)
(* rises strictly inside its span and is 100 on its end date; the value    *)
(* stored for the zero-length task is the 50 of its single day.            *)
C30_Witness ==
    /\ Returned
    /\ schedule[1].end_date = schedule[1].start_date
    /\ CompletionOn(1, schedule[1].start_date - 1) = 0
    /\ CompletionOn(1, schedule[1].start_date) = 50
    /\ CompletionOn(1, schedule[1].start_date + 1) = 100
    /\ schedule[1].completion_percentage = 50
    /\ schedule[8].end_date > schedule[8].start_date + 1
    /\ CompletionOn(8, schedule[8].start_date) = 0
    /\ CompletionOn(8, schedule[8].start_date + 1) \in 1..99
    /\ CompletionOn(8, schedule[8].end_date) = 100

----------------------------------------------------------------------------
(* The scope of the duration cache (lines 18, 68-89). *)

(* A call of generate_schedule after the first one of the process. *)
LaterCall == previous # <<>> /\ pc \in {"tasks", "post", "done"}

(* C22: the duration cache is scoped to one call of generate_schedule: in  *)
(* any sequence of calls with differing arguments, a later call starts     *)
(* with an empty cache, every entry its cache holds is the value computed  *)
(* from this call's own area and factors, and every duration it schedules  *)
(* is the one a fresh computation gives; no duration cached by an earlier  *)
(* call is reused.                                                         *)
C22_CacheScopedToOneCall ==
    LaterCall =>
        /\ schedule = <<>> => calculation_cache = <<>>
        /\ \A key \in DOMAIN calculation_cache :
              calculation_cache[key] =
                  ComputeDuration(key[1], key[2], key[3], key[4], DefaultMaximumDays)
        /\ \A k \in 1..Len(schedule) :
              k \notin {6, 23, 25} =>
                  schedule[k].duration = Min(DurationFormula(k), MaximumDays(k))

(* A later call has returned whose area differs from the first call's, and *)
(* under the same cache keys it scheduled other durations than the first   *)
(* call did.                                                               *)
C22_Witness ==
    /\ LaterCall
    /\ Returned
    /\ area_sqft # ClampArea(Get(First.project_info, "area_sqft", DefaultAreaSqft))
    /\ schedule[1].duration # First.schedule[1].duration
    /\ schedule[8].duration # First.schedule[8].duration
    /\ <<"sqrt", 50, FALSE, 1>> \in DOMAIN calculation_cache

(* Lines 93-589: the end date of task 25 as the cursor arithmetic gives it *)
(* for a first day start_day and the durations days[1..25] of the tasks.   *)
(* The end of task 5 is not used by anything after it (lines 175-193).     *)
EndOfTask25(start_day, days) ==
    LET after4 == start_day + (days[1] + 1) + (days[2] + 1) + (days[3] + 1)
                            + (days[4] + 1)
        after6 == after4 + days[6]
        after10 == (after6 + 1) + (days[7] + 1) + (days[8] + 1) + (days[9] + 1)
                                    + (days[10] + 1)
        after14 == RoughInJoin(after10 + days[12], after10 + days[13],
                               after10 + days[14], after10 + days[11])
        after20 == after14 + (days[15] + 1) + (days[16] + 1) + (days[17] + 1)
                           + (days[18] + 1) + (days[19] + 1) + (days[20] + 1)
        after22 == FixtureJoin(after20 + days[21], after20 + days[22])
    IN  after22 + (days[23] + 1) + (days[24] + 1) + days[25]

(* The number of days each task of the returned schedule takes. *)
ScheduledDays == [k \in 1..25 |-> schedule[k].end_date - schedule[k].start_date]

(* The same with task k taking one day more, all else equal. *)
Lengthened(k) == [ScheduledDays EXCEPT ![k] = @ + 1]

(* The cursor arithmetic above is the one the tasks were scheduled by. *)
EndOfTask25AsScheduled ==
    Returned =>
        EndOfTask25(schedule[1].start_date, ScheduledDays) = schedule[25].end_date

(* C24: every task flagged critical_path = True blocks the completion of   *)
(* the project: for every valid input and every such task, one more day in *)
(* that task's duration (all else equal) moves the end date of task 25     *)
(* later by at least one day.                                              *)
C24_CriticalTasksBlockCompletion ==
    (Returned /\ ValidInput) =>
        \A k \in 1..25 :
            schedule[k].critical_path =>
                EndOfTask25(schedule[1].start_date, Lengthened(k))
                    >= schedule[25].end_date + 1

----------------------------------------------------------------------------
(* The dashboard's completion values. *)

(* A run of the script is over and its charts are on the page. *)
ChartsOnPage == at = "wait" /\ shown # <<>>

(* The charts of the last run. *)
LastShown == shown[1]

(* The tasks of st.session_state.schedule. *)
SessionTask(k) == session_state.schedule[k]

(* C21: whenever a task carries a manual completion value (set by the      *)
(* user with Apply), every chart's completion of that task is that value   *)
(* and not the one derived from the dates, after any sequence of actions   *)
(* of the user (switching the mode, moving sliders, Apply, processing a    *)
(* blueprint again).                                                       *)
C21_ManualValueSupersedesDates ==
    ChartsOnPage =>
        \A k \in 1..Len(session_state.schedule) :
            HasManual(SessionTask(k)) =>
                /\ LastShown.timeline[k] = SessionTask(k).manual_completion
                /\ LastShown.meter[k] = SessionTask(k).manual_completion
                /\ LastShown.phase[k] = SessionTask(k).manual_completion

(* The counts of lines 1571-1617 from today's date and the task dates. *)
CountsByDates(tasks, today) ==
    [completed |-> Cardinality({k \in 1..Len(tasks) : tasks[k].end_date < today}),
     in_progress |-> Cardinality({k \in 1..Len(tasks) :
                         tasks[k].start_date <= today /\ today <= tasks[k].end_date}),
     upcoming |-> Cardinality({k \in 1..Len(tasks) : tasks[k].start_date > today})]

C27_FlagImpliesManualValues ==
    (at = "wait" /\ UsingManual(session_state)) =>
        \A k \in 1..Len(session_state.schedule) : HasManual(SessionTask(k))

(* A step of a run of the script that the user started by moving a slider. *)
SliderRunStep == event.kind = "slider" /\ event' = event

(* The step of lines 472-708 in a run started by the Apply button. *)
ApplyStep == event.kind = "apply" /\ at = "tab3" /\ at' = "charts"

(* C28: moving a completion slider changes only                            *)
(* st.session_state.manual_completion (the moved slider's entry): the      *)
(* tasks of st.session_state.schedule and using_manual_completion stay as  *)
(* they are through the whole run; pressing Apply Completion Percentages   *)
(* copies the current slider value of every one of the 25 tasks into that  *)
(* task and sets using_manual_completion to True.                          *)
C28_SlidersChangeOnlyManualCompletion ==
    [][ /\ SliderRunStep =>
              /\ DOMAIN session_state' = DOMAIN session_state
              /\ \A key \in DOMAIN session_state :
                    key # "manual_completion" =>
                        session_state'[key] = session_state[key]
              /\ \A k \in 1..Len(session_state.schedule) :
                    k # event.task =>
                        session_state'.manual_completion[k] =
                            session_state.manual_completion[k]
              /\ at = "tab3" =>
                    session_state'.manual_completion[event.task] = event.value
        /\ ApplyStep =>
              /\ Len(session_state'.schedule) = TaskCount
              /\ session_state'.manual_completion = session_state.manual_completion
              /\ \A k \in 1..TaskCount :
                    /\ HasManual(session_state'.schedule[k])
                    /\ session_state'.schedule[k].manual_completion =
                           session_state.manual_completion[k]
                    /\ \A field \in DOMAIN session_state.schedule[k] :
                          field # "manual_completion" =>
                              session_state'.schedule[k][field] =
                                  session_state.schedule[k][field]
              /\ session_state'.using_manual_completion = TRUE
      ]_vars

(* The values were applied with the slider of task 2 at 30; the slider has *)
(* been moved to 100 since, and the task still carries 30 under the flag.  *)
C28_Witness ==
    /\ ChartsOnPage
    /\ event.kind = "slider"
    /\ event.task = 2
    /\ session_state.manual_completion[2] = 100
    /\ \A k \in 1..TaskCount : HasManual(SessionTask(k))
    /\ SessionTask(2).manual_completion = 30
    /\ SessionTask(4).manual_completion = session_state.manual_completion[4]
    /\ UsingManual(session_state)

(* C29: the completion the dashboard derives from the dates (the sliders'  *)
(* first values, the 3D timeline, the completion meter, the phase          *)
(* progress) equals the builder's completion_percentage for the same task  *)
(* and the same today, for every task and every today, tasks with          *)
(* end_date = start_date included.                                         *)
C29_DashboardEqualsBuilder ==
    (ChartsOnPage /\ ~UsingManual(session_state)) =>
        \A k \in 1..Len(session_state.schedule) :
            LET start == SessionTask(k).start_date
                end == SessionTask(k).end_date
                today == LastShown.today
                builder_value == CompletionPercentage(start, end, today)
            IN  /\ auto_completion(start, end, today) = builder_value
                /\ LastShown.timeline[k] = builder_value
                /\ LastShown.meter[k] = builder_value
                /\ LastShown.phase[k] = builder_value

====
